---- MODULE Spec2Model ----
(***************************************************************************)
(* Model of the chat backend: POST /chat/message (send) and                *)
(* GET /chat/:sessionId (getSession), the chat service behind them, the    *)
(* message/conversation repositories and the LLM gateway generateReply.    *)
(*                                                                         *)
(* Texts are sequences of one-character strings so that trim(), slice()    *)
(* and comparison are computed rather than assumed.                        *)
(***************************************************************************)
EXTENDS Integers, Sequences, FiniteSets, TLC

(***************************************************************************)
(* Bounds of the model.                                                    *)
(***************************************************************************)
\* number of send requests accepted by the route over a run
MaxSends == 2

(***************************************************************************)
(* Texts.                                                                  *)
(***************************************************************************)
\* String.prototype.trim() strips white space; " " stands for the class.
IsWhiteSpace(c) == c = " "

RECURSIVE TrimStart(_)
TrimStart(s) ==
    IF s = <<>> THEN s
    ELSE IF IsWhiteSpace(Head(s)) THEN TrimStart(Tail(s)) ELSE s

RECURSIVE TrimEnd(_)
TrimEnd(s) ==
    IF s = <<>> THEN s
    ELSE IF IsWhiteSpace(s[Len(s)]) THEN TrimEnd(SubSeq(s, 1, Len(s) - 1)) ELSE s

Trim(s) == TrimEnd(TrimStart(s))

TextsOver(chars, n) == UNION {[1..k -> chars] : k \in 0..n}

\* Array.prototype.reverse()
Reverse(s) == [i \in 1..Len(s) |-> s[Len(s) + 1 - i]]

\* prisma `take: n`
Take(s, n) == SubSeq(s, 1, IF n < Len(s) THEN n ELSE Len(s))

\* Array.prototype.slice(-n) for n >= 1
SliceLast(s, n) == SubSeq(s, (IF Len(s) > n THEN Len(s) - n ELSE 0) + 1, Len(s))

\* An optional value (undefined | v) is the empty set or a singleton.
Undefined == {}
Some(v) == {v}
The(o) == CHOOSE v \in o : TRUE

(***************************************************************************)
(* Environment settings and clampInt.                                      *)
(***************************************************************************)
DigitVal(c) ==
    CASE c = "0" -> 0 [] c = "1" -> 1 [] c = "2" -> 2 [] c = "3" -> 3
      [] c = "4" -> 4 [] c = "5" -> 5 [] c = "6" -> 6 [] c = "7" -> 7
      [] c = "8" -> 8 [] c = "9" -> 9

IsDigit(c) == c \in {"0", "1", "2", "3", "4", "5", "6", "7", "8", "9"}

AllDigits(s) == \A i \in 1..Len(s) : IsDigit(s[i])

RECURSIVE DigitsValue(_)
DigitsValue(s) ==
    IF s = <<>> THEN 0
    ELSE 10 * DigitsValue(SubSeq(s, 1, Len(s) - 1)) + DigitVal(s[Len(s)])

\* A value that is not finite, NaN or an infinity: Number.isFinite(n) is all
\* clampInt asks of it.
NaN == [nan |-> TRUE, neg |-> FALSE, whole |-> 0, frac |-> <<>>]

\* An unsigned decimal literal: digits, digits "." digits?, or "." digits.
UnsignedNumber(s, neg) ==
    LET dots == {i \in 1..Len(s) : s[i] = "."} IN
    IF s = <<"Infinity">> THEN NaN
    ELSE IF dots = {}
    THEN IF Len(s) > 0 /\ AllDigits(s)
         THEN [nan |-> FALSE, neg |-> neg, whole |-> DigitsValue(s), frac |-> <<>>]
         ELSE NaN
    ELSE IF Cardinality(dots) # 1 THEN NaN
    ELSE LET p == CHOOSE i \in dots : TRUE
             left == SubSeq(s, 1, p - 1)
             right == SubSeq(s, p + 1, Len(s))
         IN IF AllDigits(left) /\ AllDigits(right) /\ Len(left) + Len(right) > 0
            THEN [nan |-> FALSE, neg |-> neg, whole |-> DigitsValue(left), frac |-> right]
            ELSE NaN

\* Number(string): white space is stripped, an optional sign, a decimal literal;
\* anything else is NaN.  (Callers never pass the empty string.)
ToNumber(str) ==
    LET s == Trim(str) IN
    IF s = <<>> THEN [nan |-> FALSE, neg |-> FALSE, whole |-> 0, frac |-> <<>>]
    ELSE IF Head(s) = "-" THEN UnsignedNumber(Tail(s), TRUE)
    ELSE IF Head(s) = "+" THEN UnsignedNumber(Tail(s), FALSE)
    ELSE UnsignedNumber(s, FALSE)

\* Math.trunc(n): the fraction is dropped, toward zero.
Trunc(n) == IF n.neg THEN 0 - n.whole ELSE n.whole

Max(a, b) == IF a >= b THEN a ELSE b
Min(a, b) == IF a <= b THEN a ELSE b

\* clampInt without the test for a blank string: Number("") is 0.
clampInt_NoBlankCheck(value, min, max, fallback) ==
    LET n == IF value # Undefined THEN ToNumber(The(value)) ELSE NaN
    IN IF n.nan THEN fallback ELSE Max(min, Min(max, Trunc(n)))

\* clampInt(value, min, max, fallback); value is an optional string.
clampInt(value, min, max, fallback) ==
    LET n == IF value # Undefined /\ Len(Trim(The(value))) > 0
             THEN ToNumber(The(value)) ELSE NaN
    IN IF n.nan THEN fallback ELSE Max(min, Min(max, Trunc(n)))

HISTORY_LIMIT_MIN == 1
HISTORY_LIMIT_MAX == 100
HISTORY_LIMIT_DEFAULT == 20
MAX_OUTPUT_TOKENS_MIN == 1
MAX_OUTPUT_TOKENS_MAX == 2000
MAX_OUTPUT_TOKENS_DEFAULT == 250
TIMEOUT_MS_MIN == 1000
TIMEOUT_MS_MAX == 120000
TIMEOUT_MS_DEFAULT == 15000
DEFAULT_MODEL == <<"gpt-4o-mini">>

Environment(apiKey, model, historyLimit) ==
    [OPENAI_API_KEY |-> apiKey, OPENAI_MODEL |-> model, LLM_HISTORY_LIMIT |-> historyLimit,
     LLM_MAX_OUTPUT_TOKENS |-> Undefined, LLM_TIMEOUT_MS |-> Undefined]

\* The process environments the model is run under.
Environments ==
    {Environment(Undefined, Undefined, Undefined),
     Environment(Some(<<>>), Some(<<" ">>), Some(<<"z">>)),
     Environment(Some(<<" ">>), Some(<<" ", "m">>), Some(<<"2">>)),
     Environment(Some(<<"k">>), Undefined, Some(<<"0">>)),
     Environment(Some(<<" ", "k">>), Some(<<"m", " ">>), Some(<<" ", "2", ".", "9">>))}

\* `x?.trim() || dflt`
TrimOr(value, dflt) ==
    IF value # Undefined /\ Trim(The(value)) # <<>> THEN Trim(The(value)) ELSE dflt

\* chatService: const HISTORY_LIMIT = clampInt(process.env.LLM_HISTORY_LIMIT, 1, 100, 20)
HISTORY_LIMIT(e) ==
    clampInt(e.LLM_HISTORY_LIMIT, HISTORY_LIMIT_MIN, HISTORY_LIMIT_MAX, HISTORY_LIMIT_DEFAULT)

\* generateReply: const MAX_OUTPUT_TOKENS = clampInt(process.env.LLM_MAX_OUTPUT_TOKENS, 1, 2_000, 250)
MAX_OUTPUT_TOKENS(e) ==
    clampInt(e.LLM_MAX_OUTPUT_TOKENS, MAX_OUTPUT_TOKENS_MIN, MAX_OUTPUT_TOKENS_MAX,
             MAX_OUTPUT_TOKENS_DEFAULT)

\* getOpenAiClientFromEnvOrNull: const timeoutMs = clampInt(process.env.LLM_TIMEOUT_MS, 1_000, 120_000, 15_000)
timeoutMs(e) ==
    clampInt(e.LLM_TIMEOUT_MS, TIMEOUT_MS_MIN, TIMEOUT_MS_MAX, TIMEOUT_MS_DEFAULT)

\* generateReply: const MAX_HISTORY_MESSAGES = clampInt(process.env.LLM_HISTORY_LIMIT, 1, 100, 20)
MAX_HISTORY_MESSAGES(e) ==
    clampInt(e.LLM_HISTORY_LIMIT, HISTORY_LIMIT_MIN, HISTORY_LIMIT_MAX, HISTORY_LIMIT_DEFAULT)

\* A configuration read that takes the credential as it is written.
getOpenAiConfigFromEnv_NoTrim(e) ==
    IF e.OPENAI_API_KEY = Undefined \/ The(e.OPENAI_API_KEY) = <<>> THEN Undefined
    ELSE Some([apiKey |-> The(e.OPENAI_API_KEY),
               model |-> TrimOr(e.OPENAI_MODEL, DEFAULT_MODEL)])

\* A configuration read that puts the credential where the model name goes.
getOpenAiConfigFromEnv_KeyAsModel(e) ==
    LET apiKey == TrimOr(e.OPENAI_API_KEY, <<>>) IN
    IF apiKey = <<>> THEN Undefined
    ELSE Some([apiKey |-> TrimOr(e.OPENAI_MODEL, DEFAULT_MODEL), model |-> apiKey])

\* getOpenAiConfigFromEnv(): null without a credential, else {apiKey, model}
getOpenAiConfigFromEnv(e) ==
    LET apiKey == TrimOr(e.OPENAI_API_KEY, <<>>) IN
    IF apiKey = <<>> THEN Undefined
    ELSE Some([apiKey |-> apiKey, model |-> TrimOr(e.OPENAI_MODEL, DEFAULT_MODEL)])

(***************************************************************************)
(* The data store: Conversation and Message tables, and the repositories.  *)
(***************************************************************************)
VARIABLES
    env,            \* process.env, fixed when the process starts
    conversations,  \* Conversation rows, in insertion order
    messages,       \* Message rows, in insertion order
    now,            \* the clock behind createdAt, in milliseconds
    reqs,           \* the requests being served, one record per handle
    response,       \* the request answered last, with its response
    started,        \* number of send requests accepted so far
    page            \* the chat page open in a browser: its state and localStorage

vars == <<env, conversations, messages, now, reqs, response, started, page>>

\* +page.svelte: the $state declarations, before onMount has run.  stored is
\* the localStorage entry "spur.sessionId"; pc is the position of the page's
\* code ("mount", "loading", "ready", "sending", "fetching"); fetching holds
\* the request the page waits on and answer the response handled last.
PageState(stored) ==
    [messages |-> <<>>, draft |-> <<>>, sessionId |-> {}, isBooting |-> TRUE,
     isSending |-> FALSE, typingIndicator |-> FALSE, stored |-> stored,
     pc |-> "mount", fetching |-> {}, answer |-> {}, posts |-> 0]

\* Server-generated identifiers: the n-th row of a table gets the n-th one.
IdChars == <<"1", "2", "3", "4", "5", "6", "7", "8", "9">>
NewId(n) == <<IdChars[n]>>

Range(s) == {s[i] : i \in 1..Len(s)}

\* A create that leaves the title out.
createConversation_DropsTitle(input) ==
    [id |-> NewId(Len(conversations) + 1),
     channel |-> input.channel,
     title |-> Undefined,
     externalConversationId |-> input.externalConversationId]

\* prisma.conversation.create({data: {channel, title?, externalConversationId?}})
createConversation(input) ==
    [id |-> NewId(Len(conversations) + 1),
     channel |-> input.channel,
     title |-> IF input.title # Undefined /\ The(input.title) # <<>>
               THEN input.title ELSE Undefined,
     externalConversationId |-> input.externalConversationId]

\* prisma.conversation.findUnique({where: {id}}): the row, or null
findConversationById(id) == {c \in Range(conversations) : c.id = id}

\* prisma.message.create({data: {conversationId, direction, content, metadata?}})
createMessage(input) ==
    [id |-> NewId(Len(messages) + 1),
     createdAt |-> now,
     conversationId |-> input.conversationId,
     direction |-> input.direction,
     content |-> input.content,
     metadata |-> input.metadata]

\* ORDER BY "createdAt" ASC: rows of equal createdAt come in any order.
RECURSIVE OrderByCreatedAtAsc(_)
OrderByCreatedAtAsc(rows) ==
    IF rows = {} THEN {<<>>}
    ELSE UNION {{<<m>> \o rest : rest \in OrderByCreatedAtAsc(rows \ {m})} :
                m \in {x \in rows : \A y \in rows : x.createdAt <= y.createdAt}}

\* ORDER BY "createdAt" DESC: rows of equal createdAt come in any order.
RECURSIVE OrderByCreatedAtDesc(_)
OrderByCreatedAtDesc(rows) ==
    IF rows = {} THEN {<<>>}
    ELSE UNION {{<<m>> \o rest : rest \in OrderByCreatedAtDesc(rows \ {m})} :
                m \in {x \in rows : \A y \in rows : x.createdAt >= y.createdAt}}

\* A listing that leaves out the where clause.
MessagesOf_All(conversationId) == Range(messages)

\* where: {conversationId}
MessagesOf(conversationId) == {m \in Range(messages) : m.conversationId = conversationId}

\* findMany({where: {conversationId}, orderBy: {createdAt: "asc"}}): the possible results
listMessagesByConversationId(conversationId) ==
    OrderByCreatedAtAsc(MessagesOf(conversationId))

\* findMany({where, orderBy: {createdAt: "desc"}, take: limit}), then reverse()
listRecentMessagesByConversationId(conversationId, limit) ==
    {Reverse(Take(recent, limit)) : recent \in OrderByCreatedAtDesc(MessagesOf(conversationId))}

(***************************************************************************)
(* The LLM gateway: generateReply and classifyOpenAiError.                 *)
(***************************************************************************)
SYSTEM_PROMPT == <<"SYSTEM_PROMPT">>
FAQ_KNOWLEDGE == <<"FAQ_KNOWLEDGE">>

fallbackReply == <<"Sorry, I'm having trouble right now. Please try again in a moment.">>

ToLowerChar(c) ==
    CASE c = "T" -> "t" [] c = "I" -> "i" [] c = "M" -> "m" [] c = "E" -> "e"
      [] c = "D" -> "d" [] c = "O" -> "o" [] c = "U" -> "u" [] OTHER -> c

\* String.prototype.toLowerCase()
ToLowerCase(s) == [i \in 1..Len(s) |-> ToLowerChar(s[i])]

\* String.prototype.includes(sub)
Includes(s, sub) ==
    \E i \in 1..(Len(s) - Len(sub) + 1) : SubSeq(s, i, i + Len(sub) - 1) = sub

\* A thrown value, seen through the fields classifyOpenAiError reads; a field
\* that is missing or of the wrong type is Undefined.
ErrorValue(status, statusCode, code, name, message, error) ==
    [status |-> status, statusCode |-> statusCode, code |-> code,
     name |-> name, message |-> message, error |-> error]

\* classifyOpenAiError(err)
classifyOpenAiError(e) ==
    LET status ==
            IF e.status # Undefined THEN e.status
            ELSE IF e.statusCode # Undefined THEN e.statusCode
            ELSE IF e.error # Undefined /\ The(e.error).status # Undefined
                 THEN The(e.error).status
            ELSE Undefined
        code ==
            IF e.code # Undefined THEN e.code
            ELSE IF e.error # Undefined /\ The(e.error).code # Undefined
                 THEN The(e.error).code
            ELSE Undefined
        name == IF e.name # Undefined THEN The(e.name) ELSE ""
        message == IF e.message # Undefined THEN The(e.message) ELSE <<>>
    IN  IF status = Some(401) \/ status = Some(403) \/ code = Some("invalid_api_key")
        THEN "invalid_api_key"
        ELSE IF status = Some(429) \/ code = Some("rate_limit_exceeded")
        THEN "rate_limit"
        ELSE IF name = "AbortError" THEN "timeout"
        ELSE IF code = Some("ETIMEDOUT") \/ code = Some("ECONNABORTED") THEN "timeout"
        ELSE IF \/ Includes(ToLowerCase(message), <<"t", "i", "m", "e", "o", "u", "t">>)
                \/ Includes(ToLowerCase(message), <<"t", "i", "m", "e", "d", " ", "o", "u", "t">>)
        THEN "timeout"
        ELSE "provider_error"

\* The TypeError JavaScript raises on reading a property of undefined or on
\* calling something that is not a function.
TypeError ==
    ErrorValue(Undefined, Undefined, Undefined, Some("TypeError"),
               Some(<<"n", "o", "t", " ", "a", " ", "f", "u", "n", "c", "t", "i", "o", "n">>),
               Undefined)

\* The extraction without the trim().
ExtractReply_NoTrim(completion) ==
    IF completion.choices = Undefined
    THEN [threw |-> TRUE, value |-> Undefined]
    ELSE LET choices == The(completion.choices) IN
         IF Len(choices) = 0 \/ choices[1].message = Undefined
         THEN [threw |-> FALSE, value |-> Undefined]
         ELSE LET content == The(choices[1].message).content IN
              CASE content.type = "null" -> [threw |-> FALSE, value |-> Undefined]
                [] content.type = "string" -> [threw |-> FALSE, value |-> Some(content.text)]
                [] OTHER -> [threw |-> TRUE, value |-> Undefined]

\* completion.choices[0]?.message?.content?.trim();
\* [threw |-> TRUE] when the expression raises, else the optional string.
ExtractReply(completion) ==
    IF completion.choices = Undefined
    THEN [threw |-> TRUE, value |-> Undefined]
    ELSE LET choices == The(completion.choices) IN
         IF Len(choices) = 0 \/ choices[1].message = Undefined
         THEN [threw |-> FALSE, value |-> Undefined]
         ELSE LET content == The(choices[1].message).content IN
              CASE content.type = "null" -> [threw |-> FALSE, value |-> Undefined]
                [] content.type = "string" -> [threw |-> FALSE, value |-> Some(Trim(content.text))]
                [] OTHER -> [threw |-> TRUE, value |-> Undefined]

\* A fallback result that is not flagged as one.
FallbackResult_NotFlagged(model, errorCode) ==
    [reply |-> fallbackReply,
     meta |-> [provider |-> "openai", model |-> model, usedFallback |-> FALSE,
               errorCode |-> errorCode]]

FallbackResult(model, errorCode) ==
    [reply |-> fallbackReply,
     meta |-> [provider |-> "openai", model |-> model, usedFallback |-> TRUE,
               errorCode |-> errorCode]]

\* The catch block, returning meta without the errorCode.
CatchResult_NoErrorCode(e, err) ==
    [reply |-> fallbackReply,
     meta |-> [provider |-> "openai", model |-> TrimOr(e.OPENAI_MODEL, DEFAULT_MODEL),
               usedFallback |-> TRUE]]

\* The catch block of generateReply.
CatchResult(e, err) ==
    FallbackResult(TrimOr(e.OPENAI_MODEL, DEFAULT_MODEL), classifyOpenAiError(err))

\* The chat.completions.create request generateReply builds from the history.
CompletionRequest(e, model, history) ==
    LET boundedHistory == SliceLast(history, MAX_HISTORY_MESSAGES(e)) IN
    [model |-> model,
     max_tokens |-> MAX_OUTPUT_TOKENS(e),
     messages |-> <<[role |-> "system", content |-> SYSTEM_PROMPT],
                    [role |-> "system", content |-> FAQ_KNOWLEDGE]>>
                  \o [i \in 1..Len(boundedHistory) |->
                        [role |-> boundedHistory[i].role,
                         content |-> boundedHistory[i].content]]]

\* generateReply returns without calling the provider: there is no
\* credential, or constructing the client throws.
ReturnsAtOnce(e, outcome) ==
    getOpenAiConfigFromEnv(e) = Undefined \/ outcome.kind = "construct_throw"

\* generateReply without its `if (!reply)` guard.
generateReply_KeepsEmpty(e, history, outcome) ==
    LET cfg == getOpenAiConfigFromEnv(e) IN
    IF cfg = Undefined
    THEN FallbackResult(TrimOr(e.OPENAI_MODEL, DEFAULT_MODEL), "missing_api_key")
    ELSE IF outcome.kind \in {"construct_throw", "throw"}
    THEN CatchResult(e, outcome.err)
    ELSE LET reply == ExtractReply(outcome.completion) IN
         IF reply.threw THEN CatchResult(e, TypeError)
         ELSE [reply |-> IF reply.value = Undefined THEN <<>> ELSE The(reply.value),
               meta |-> [provider |-> "openai", model |-> The(cfg).model,
                         usedFallback |-> FALSE]]

\* generateReply({history}) when the provider behaves as `outcome`.
generateReply(e, history, outcome) ==
    LET cfg == getOpenAiConfigFromEnv(e) IN
    IF cfg = Undefined
    THEN FallbackResult(TrimOr(e.OPENAI_MODEL, DEFAULT_MODEL), "missing_api_key")
    ELSE IF outcome.kind \in {"construct_throw", "throw"}
    THEN CatchResult(e, outcome.err)
    ELSE LET reply == ExtractReply(outcome.completion) IN
         IF reply.threw THEN CatchResult(e, TypeError)
         ELSE IF reply.value = Undefined \/ The(reply.value) = <<>>
         THEN FallbackResult(The(cfg).model, "empty_response")
         ELSE [reply |-> The(reply.value),
               meta |-> [provider |-> "openai", model |-> The(cfg).model,
                         usedFallback |-> FALSE]]

(***************************************************************************)
(* What the provider may do when called.                                   *)
(***************************************************************************)
NoError == ErrorValue(Undefined, Undefined, Undefined, Undefined, Undefined, Undefined)
NoCompletion == [choices |-> Undefined]

StatusError(status) ==
    ErrorValue(Some(status), Undefined, Undefined, Some("Error"), Undefined, Undefined)

\* The SDK's error when its timeout elapses: "Request timed out."
TimeoutError ==
    ErrorValue(Undefined, Undefined, Undefined, Some("Error"),
               Some(<<"R", "e", "q", "u", "e", "s", "t", " ", "t", "i", "m", "e", "d",
                      " ", "o", "u", "t", ".">>),
               Undefined)

ProviderErrors == {StatusError(500), TimeoutError}

\* The texts a completion may carry.
ReplyTexts == {<<>>, <<" ">>, <<"b">>, <<" ", "b", " ">>}

ContentOf(type, text) == [type |-> type, text |-> text]
ChoiceWith(content) == [message |-> Some([content |-> content])]

Completions ==
    {NoCompletion,
     [choices |-> Some(<<>>)],
     [choices |-> Some(<<[message |-> Undefined]>>)],
     [choices |-> Some(<<ChoiceWith(ContentOf("null", <<>>))>>)],
     [choices |-> Some(<<ChoiceWith(ContentOf("number", <<>>))>>)]}
    \union {[choices |-> Some(<<ChoiceWith(ContentOf("string", t))>>)] :
            t \in ReplyTexts}

ProviderOutcomes ==
    {[kind |-> "construct_throw", err |-> NoError, completion |-> NoCompletion]}
    \union {[kind |-> "throw", err |-> err, completion |-> NoCompletion] : err \in ProviderErrors}
    \union {[kind |-> "completion", err |-> NoError, completion |-> c] : c \in Completions}

(***************************************************************************)
(* Requests.                                                               *)
(***************************************************************************)
Requests == {"r1", "r2"}

\* Bodies that pass SendMessageBodySchema: message of length >= 1,
\* sessionId absent or of length >= 1.
MessageInputs == {<<" ">>, <<"a">>, <<" ", "a", " ">>}
SessionIdStrings == {<<"1">>, <<"2">>, <<" ", "1", " ">>, <<" ">>}
SessionIdInputs == {Undefined} \union {Some(t) : t \in SessionIdStrings}

\* A request: where its handler stands (pc), its input, the handler's locals,
\* and its response (result or error).  For the properties it also records
\* the tables as the request found them (before), the rows it inserted
\* (created, persisted), the requests it made to the provider (completions)
\* what the provider did (outcome) and when it was called (sentAt).
IdleRequest ==
    [pc |-> "idle", op |-> "none", message |-> <<>>, sessionId |-> Undefined,
     conversation |-> Undefined, history |-> <<>>, generated |-> Undefined,
     result |-> Undefined, error |-> Undefined,
     before |-> [conversations |-> <<>>, messages |-> <<>>],
     created |-> <<>>, persisted |-> <<>>, completions |-> <<>>, outcome |-> Undefined,
     sentAt |-> 0, thrown |-> Undefined, timeouts |-> 0]

ApiError(statusCode, code) == [statusCode |-> statusCode, code |-> code]

Idle(r) == reqs[r].pc = "idle"
NoneInFlight == \A r \in Requests : Idle(r)

LastCreatedAt == IF messages = <<>> THEN 0 ELSE messages[Len(messages)].createdAt

\* Every turn taken as the user's.
toLlmRole_AlwaysUser(direction) == "user"

toLlmRole(direction) == IF direction = "inbound" THEN "user" ELSE "assistant"

ToTurns(history) ==
    [i \in 1..Len(history) |->
        [role |-> toLlmRole(history[i].direction), content |-> history[i].content]]

Init ==
    /\ env \in Environments
    /\ conversations = <<>>
    /\ messages = <<>>
    /\ now = 1
    /\ reqs = [r \in Requests |-> IdleRequest]
    /\ response = IdleRequest
    /\ started = 0
    /\ page = PageState({})

\* The millisecond clock advances.  Only its position relative to the newest
\* createdAt and to the calls in progress matters, so it runs at most one
\* step ahead of them.
Tick ==
    /\ \/ now <= LastCreatedAt
       \/ \E r \in Requests : reqs[r].pc = "waiting" /\ reqs[r].sentAt = now
    /\ now' = now + 1
    /\ UNCHANGED <<page, env, conversations, messages, reqs, response, started>>

\* The guard testing the length of the untrimmed message.
IsEmptyMessage_NoTrim(message) == Len(message) = 0

\* The guard of the POST /chat/message handler.
IsEmptyMessage(message) == Len(Trim(message)) = 0

\* POST /chat/message arrives: the route handler, and sendChatMessage up to
\* its first await.
PostChatMessage(r, message, sessionId) ==
    /\ Idle(r)
    /\ started < MaxSends
    /\ started' = started + 1
    /\ LET request == [IdleRequest EXCEPT
                          !.op = "send", !.message = message, !.sessionId = sessionId,
                          !.before = [conversations |-> conversations,
                                      messages |-> messages]] IN
       IF IsEmptyMessage(message)
       THEN /\ response' = [request EXCEPT !.pc = "failed",
                                           !.error = Some(ApiError(400, "empty_message"))]
            /\ UNCHANGED reqs
       ELSE /\ reqs' = [reqs EXCEPT ![r] = [request EXCEPT !.pc = "resolve"]]
            /\ response' = IdleRequest
    /\ UNCHANGED <<page, env, conversations, messages, now>>

\* const normalizedSessionId = input.sessionId?.trim()
normalizedSessionId(sessionId) ==
    IF sessionId = Undefined THEN Undefined ELSE Some(Trim(The(sessionId)))

\* A resolver that creates a conversation whatever identifier came.
CreatesConversation_Always(sessionId) == TRUE

\* !normalizedSessionId
CreatesConversation(sessionId) ==
    normalizedSessionId(sessionId) = Undefined \/ The(normalizedSessionId(sessionId)) = <<>>

WebConversationInput ==
    [channel |-> "web", title |-> Some(<<"Web session">>), externalConversationId |-> Undefined]

\* sendChatMessage: createConversation or findConversationById, and the
\* invalid_session check.
ResolveSession(r) ==
    /\ reqs[r].pc = "resolve"
    /\ IF CreatesConversation(reqs[r].sessionId)
       THEN LET c == createConversation(WebConversationInput) IN
            /\ conversations' = Append(conversations, c)
            /\ reqs' = [reqs EXCEPT ![r].pc = "inbound",
                                    ![r].conversation = Some(c),
                                    ![r].created = Append(@, c.id)]
            /\ UNCHANGED response
       ELSE LET found == findConversationById(The(normalizedSessionId(reqs[r].sessionId))) IN
            /\ UNCHANGED conversations
            /\ IF found = Undefined
               THEN /\ response' = [reqs[r] EXCEPT
                          !.pc = "failed",
                          !.error = Some(ApiError(404, "invalid_session"))]
                    /\ reqs' = [reqs EXCEPT ![r] = IdleRequest]
               ELSE /\ reqs' = [reqs EXCEPT ![r].pc = "inbound", ![r].conversation = found]
                    /\ UNCHANGED response
    /\ UNCHANGED <<page, env, messages, now, started>>

\* The request text taken as it came.
userText_NoTrim(message) == message

\* const userText = input.message.trim()
userText(message) == Trim(message)

\* sendChatMessage: createMessage({direction: "inbound", content: userText})
PersistInbound(r) ==
    /\ reqs[r].pc = "inbound"
    /\ LET m == createMessage([conversationId |-> The(reqs[r].conversation).id,
                               direction |-> "inbound",
                               content |-> userText(reqs[r].message),
                               metadata |-> Undefined]) IN
       /\ messages' = Append(messages, m)
       /\ reqs' = [reqs EXCEPT ![r].pc = "history", ![r].persisted = Append(@, m.id)]
    /\ UNCHANGED <<page, env, conversations, now, response, started>>

\* sendChatMessage: listRecentMessagesByConversationId({conversationId, limit: HISTORY_LIMIT})
ReadHistory(r) ==
    /\ reqs[r].pc = "history"
    /\ \E history \in listRecentMessagesByConversationId(The(reqs[r].conversation).id,
                                                          HISTORY_LIMIT(env)) :
          reqs' = [reqs EXCEPT ![r].pc = "generate", ![r].history = history]
    /\ UNCHANGED <<page, env, conversations, messages, now, response, started>>

\* sendChatMessage: await generateReply({history: history.map(...)}), when
\* generateReply returns without calling the provider.
GenerateReplyAtOnce(r, outcome) ==
    /\ reqs[r].pc = "generate"
    /\ ReturnsAtOnce(env, outcome)
    /\ reqs' = [reqs EXCEPT
          ![r].pc = "outbound",
          ![r].generated = Some(generateReply(env, ToTurns(reqs[r].history), outcome)),
          ![r].outcome = Some(outcome)]
    /\ UNCHANGED <<page, env, conversations, messages, now, response, started>>

\* A gateway that sends the completion request twice.
CallProvider_Twice(r) ==
    /\ reqs[r].pc = "generate"
    /\ getOpenAiConfigFromEnv(env) # Undefined
    /\ LET request == CompletionRequest(env, The(getOpenAiConfigFromEnv(env)).model,
                                        ToTurns(reqs[r].history)) IN
       reqs' = [reqs EXCEPT
          ![r].pc = "waiting",
          ![r].sentAt = now,
          ![r].completions = Append(Append(@, request), request)]
    /\ UNCHANGED <<page, env, conversations, messages, now, response, started>>

\* generateReply: await openai.client.chat.completions.create({...}) is sent.
CallProvider(r) ==
    /\ reqs[r].pc = "generate"
    /\ getOpenAiConfigFromEnv(env) # Undefined
    /\ reqs' = [reqs EXCEPT
          ![r].pc = "waiting",
          ![r].sentAt = now,
          ![r].completions =
              Append(@, CompletionRequest(env, The(getOpenAiConfigFromEnv(env)).model,
                                          ToTurns(reqs[r].history)))]
    /\ UNCHANGED <<page, env, conversations, messages, now, response, started>>

\* The call ends, in a later millisecond than it began: the provider answers,
\* or the SDK throws.  generateReply returns.
ProviderAnswers(r, outcome) ==
    /\ reqs[r].pc = "waiting"
    /\ outcome.kind # "construct_throw"
    /\ now > reqs[r].sentAt
    /\ reqs' = [reqs EXCEPT
          ![r].pc = "outbound",
          ![r].sentAt = 0,
          ![r].generated = Some(generateReply(env, ToTurns(reqs[r].history), outcome)),
          ![r].outcome = Some(outcome)]
    /\ UNCHANGED <<page, env, conversations, messages, now, response, started>>

\* The metadata built without the errorCode.
safeLlmMeta_NoErrorCode(meta) ==
    [provider |-> meta.provider, model |-> meta.model, usedFallback |-> meta.usedFallback]

\* safeLlmMeta: provider, model, usedFallback, and errorCode when there is one
safeLlmMeta(meta) ==
    IF "errorCode" \in DOMAIN meta /\ meta.errorCode # ""
    THEN [provider |-> meta.provider, model |-> meta.model,
          usedFallback |-> meta.usedFallback, errorCode |-> meta.errorCode]
    ELSE [provider |-> meta.provider, model |-> meta.model,
          usedFallback |-> meta.usedFallback]

\* A send that stores its reply only when the conversation does not already
\* end with a reply.
PersistOutbound_Dedupes(r) ==
    /\ reqs[r].pc = "outbound"
    /\ LET g == The(reqs[r].generated)
           rows == MessagesOf(The(reqs[r].conversation).id)
           m == createMessage([conversationId |-> The(reqs[r].conversation).id,
                               direction |-> "outbound",
                               content |-> g.reply,
                               metadata |-> Some([llm |-> safeLlmMeta(g.meta)])]) IN
       /\ messages' = IF \E x \in rows : x.direction = "outbound" /\ x.id = NewId(Len(messages))
                      THEN messages ELSE Append(messages, m)
       /\ response' = [reqs[r] EXCEPT
             !.pc = "done",
             !.outcome = Undefined,
             !.persisted = Append(@, m.id),
             !.result = Some([reply |-> g.reply,
                              sessionId |-> The(reqs[r].conversation).id])]
       /\ reqs' = [reqs EXCEPT ![r] = IdleRequest]
    /\ UNCHANGED <<page, env, conversations, now, started>>

\* sendChatMessage: createMessage({direction: "outbound", content: reply,
\* metadata: {llm: safeLlmMeta}}) and return {reply, sessionId}
PersistOutbound(r) ==
    /\ reqs[r].pc = "outbound"
    /\ LET g == The(reqs[r].generated)
           m == createMessage([conversationId |-> The(reqs[r].conversation).id,
                               direction |-> "outbound",
                               content |-> g.reply,
                               metadata |-> Some([llm |-> safeLlmMeta(g.meta)])]) IN
       /\ messages' = Append(messages, m)
       /\ response' = [reqs[r] EXCEPT
             !.pc = "done",
             !.outcome = Undefined,
             !.persisted = Append(@, m.id),
             !.result = Some([reply |-> g.reply,
                              sessionId |-> The(reqs[r].conversation).id])]
       /\ reqs' = [reqs EXCEPT ![r] = IdleRequest]
    /\ UNCHANGED <<page, env, conversations, now, started>>

\* GET /chat/:sessionId arrives (SessionParamsSchema: length >= 1).
GetChatSession(r, sessionId) ==
    /\ Idle(r)
    /\ reqs' = [reqs EXCEPT ![r] =
          [IdleRequest EXCEPT !.pc = "find", !.op = "get", !.sessionId = Some(sessionId),
                              !.before = [conversations |-> conversations,
                                          messages |-> messages]]]
    /\ UNCHANGED <<page, env, conversations, messages, now, response, started>>

\* getChatSession: findConversationById(sessionId) and the not_found check
FindSession(r) ==
    /\ reqs[r].pc = "find"
    /\ LET found == findConversationById(The(reqs[r].sessionId)) IN
       IF found = Undefined
       THEN /\ response' = [reqs[r] EXCEPT !.pc = "failed",
                                           !.error = Some(ApiError(404, "not_found"))]
            /\ reqs' = [reqs EXCEPT ![r] = IdleRequest]
       ELSE /\ reqs' = [reqs EXCEPT ![r].pc = "list", ![r].conversation = found]
            /\ UNCHANGED response
    /\ UNCHANGED <<page, env, conversations, messages, now, started>>

\* The content of the first outbound message of the list.
lastReply_First(list) ==
    LET outbound == {i \in 1..Len(list) : list[i].direction = "outbound"} IN
    IF outbound = {} THEN <<>>
    ELSE list[CHOOSE i \in outbound : \A j \in outbound : i <= j].content

\* [...messages].reverse().find((m) => m.direction === "outbound")?.content ?? ""
lastReply(list) ==
    LET outbound == {i \in 1..Len(list) : list[i].direction = "outbound"} IN
    IF outbound = {} THEN <<>>
    ELSE list[CHOOSE i \in outbound : \A j \in outbound : j <= i].content

\* Date.prototype.toISOString() of an instant in the first hour of the clock
ToISOString(ms) ==
    LET digit(d) == IF d = 0 THEN "0" ELSE IdChars[d]
        minutes == (ms \div 60000) % 60
        seconds == (ms \div 1000) % 60
    IN <<"1970-01-01T00:", digit(minutes \div 10), digit(minutes % 10), ":",
         digit(seconds \div 10), digit(seconds % 10), ".",
         digit((ms \div 100) % 10), digit((ms \div 10) % 10), digit(ms % 10), "Z">>

ToDto(m) ==
    [id |-> m.id, direction |-> m.direction, content |-> m.content,
     createdAt |-> ToISOString(m.createdAt)]

\* getChatSession: listMessagesByConversationId and the returned object
ListSession(r) ==
    /\ reqs[r].pc = "list"
    /\ \E list \in listMessagesByConversationId(The(reqs[r].conversation).id) :
          response' = [reqs[r] EXCEPT
             !.pc = "done",
             !.result = Some([reply |-> lastReply(list),
                              sessionId |-> The(reqs[r].conversation).id,
                              messages |-> [i \in 1..Len(list) |-> ToDto(list[i])]])]
    /\ reqs' = [reqs EXCEPT ![r] = IdleRequest]
    /\ UNCHANGED <<page, env, conversations, messages, now, started>>

\* A client that has its answer needs more than the clock's resolution to
\* bring the next message: the newest row is from an earlier millisecond.
AfterRoundTrip == now > LastCreatedAt

\* Requests served one at a time: a request arrives when none is in flight.
Next ==
    \/ Tick
    \/ \E message \in MessageInputs, sessionId \in SessionIdInputs :
          NoneInFlight /\ AfterRoundTrip /\ PostChatMessage("r1", message, sessionId)
    \/ ResolveSession("r1")
    \/ PersistInbound("r1")
    \/ ReadHistory("r1")
    \/ \E outcome \in ProviderOutcomes : GenerateReplyAtOnce("r1", outcome)
    \/ CallProvider("r1")
    \/ \E outcome \in ProviderOutcomes : ProviderAnswers("r1", outcome)
    \/ PersistOutbound("r1")
    \/ \E sessionId \in SessionIdStrings :
          NoneInFlight /\ GetChatSession("r1", sessionId)
    \/ FindSession("r1")
    \/ ListSession("r1")

Spec == Init /\ [][Next]_vars

(***************************************************************************)
(* The data store may fail: any repository call may reject, and the error  *)
(* leaves the handler for the error handler of the server.                 *)
(***************************************************************************)
\* What a rejected Prisma call throws: an error with a Prisma code ("P1001",
\* the database cannot be reached) or one without code; neither has a
\* statusCode.
StoreErrors ==
    {[statusCode |-> Undefined, code |-> Some("P1001")],
     [statusCode |-> Undefined, code |-> Undefined]}

\* isApiError(err): a number statusCode and a string code
isApiError(error) == error.statusCode # Undefined /\ error.code # Undefined

\* An error handler whose default status is 400.
errorHandler_BadRequest(error) ==
    IF isApiError(error)
    THEN [statusCode |-> The(error.statusCode), code |-> The(error.code)]
    ELSE [statusCode |-> 400,
          code |-> IF error.code # Undefined THEN The(error.code) ELSE "bad_request"]

\* An error handler that answers every error that is no ApiError as an
\* internal error, whatever status and code the error carries.
errorHandler_Masks(error) ==
    IF isApiError(error)
    THEN [statusCode |-> The(error.statusCode), code |-> The(error.code)]
    ELSE [statusCode |-> 500, code |-> "internal_server_error"]

\* app.setErrorHandler(...): the status and the error label of the response,
\* for an error thrown before the reply has a status (reply.statusCode = 200).
errorHandler(error) ==
    IF isApiError(error)
    THEN [statusCode |-> The(error.statusCode), code |-> The(error.code)]
    ELSE LET statusCode ==
                 IF error.statusCode # Undefined /\ The(error.statusCode) # 0
                 THEN The(error.statusCode) ELSE 500 IN
         [statusCode |-> statusCode,
          code |-> IF error.code # Undefined THEN The(error.code)
                   ELSE IF statusCode >= 500 THEN "internal_server_error"
                   ELSE "bad_request"]

\* The steps of a request that call a repository.
StoreSteps == {"resolve", "inbound", "history", "outbound", "find", "list"}

\* The repository call of the step rejects: the error leaves sendChatMessage
\* or getChatSession, and the handler, and is answered by the error handler.
StoreFails(r, error) ==
    /\ reqs[r].pc \in StoreSteps
    /\ response' = [reqs[r] EXCEPT !.pc = "failed",
                                   !.thrown = Some(error),
                                   !.error = Some(errorHandler(error))]
    /\ reqs' = [reqs EXCEPT ![r] = IdleRequest]
    /\ UNCHANGED <<page, env, conversations, messages, now, started>>

NextFaulty ==
    \/ Next
    \/ \E error \in StoreErrors : StoreFails("r1", error)

SpecFaulty == Init /\ [][NextFaulty]_vars

(***************************************************************************)
(* The error handler alone: a request is in progress, an error of one of   *)
(* the shapes below is thrown, and the error handler answers it.           *)
(***************************************************************************)
\* The status codes the errors reaching the handler carry: none (a plain
\* Error, a Prisma error), or the 4xx or 5xx status of an ApiError or of an
\* error of the framework.
ThrownStatusCodes ==
    {Undefined, Some(400), Some(404), Some(413), Some(415), Some(429),
     Some(500), Some(503)}

\* Their codes: none, the code of an ApiError of the routes, a code of the
\* framework, a Prisma code.
ThrownCodes ==
    {Undefined, Some("empty_message"), Some("invalid_session"), Some("not_found"),
     Some("FST_ERR_VALIDATION"), Some("FST_ERR_CTP_BODY_TOO_LARGE"), Some("P1001")}

ThrownErrors ==
    {[statusCode |-> statusCode, code |-> code] :
        statusCode \in ThrownStatusCodes, code \in ThrownCodes}

InitErrors ==
    /\ env = Environment(Undefined, Undefined, Undefined)
    /\ conversations = <<>>
    /\ messages = <<>>
    /\ now = 1
    /\ \E error \in ThrownErrors :
          reqs = [r \in Requests |->
                    IF r = "r1"
                    THEN [IdleRequest EXCEPT !.pc = "throws", !.thrown = Some(error)]
                    ELSE IdleRequest]
    /\ response = IdleRequest
    /\ started = 0
    /\ page = PageState({})

\* The error leaves the route handler and the error handler answers it.
HandleError(r) ==
    /\ reqs[r].pc = "throws"
    /\ response' = [reqs[r] EXCEPT !.pc = "failed",
                                   !.error = Some(errorHandler(The(reqs[r].thrown)))]
    /\ reqs' = [reqs EXCEPT ![r] = IdleRequest]
    /\ UNCHANGED <<page, env, conversations, messages, now, started>>

NextErrors == HandleError("r1")

SpecErrors == InitErrors /\ [][NextErrors]_vars

(***************************************************************************)
(* The provider may stay silent.  The client is new OpenAI({apiKey,        *)
(* timeout: timeoutMs}): the SDK aborts an attempt that has not answered   *)
(* after timeoutMs, and, no maxRetries being given, sends the request      *)
(* again up to its default of two more times before it throws its timeout  *)
(* error.  The pause the SDK makes before sending again is left out.      *)
(***************************************************************************)
DEFAULT_MAX_RETRIES == 2

TimeoutEnvironments ==
    {[Environment(Some(<<"k">>), Undefined, Undefined) EXCEPT !.LLM_TIMEOUT_MS = timeout] :
       timeout \in {Undefined, Some(<<"9", "9", "9", ".", "9">>)}}

InitTimeout ==
    /\ env \in TimeoutEnvironments
    /\ conversations = <<>>
    /\ messages = <<>>
    /\ now = 1
    /\ reqs = [r \in Requests |-> IdleRequest]
    /\ response = IdleRequest
    /\ started = 0
    /\ page = PageState({})

\* The attempt in progress has not answered when its timeout elapses.
TimeoutElapses(r) ==
    /\ reqs[r].pc = "waiting"
    /\ LET elapsed == reqs[r].sentAt + (reqs[r].timeouts + 1) * timeoutMs(env) IN
       /\ now <= elapsed
       /\ now' = elapsed
    /\ IF reqs[r].timeouts < DEFAULT_MAX_RETRIES
       THEN reqs' = [reqs EXCEPT ![r].timeouts = @ + 1]
       ELSE LET outcome == [kind |-> "throw", err |-> TimeoutError,
                            completion |-> NoCompletion] IN
            reqs' = [reqs EXCEPT
               ![r].pc = "outbound",
               ![r].timeouts = @ + 1,
               ![r].generated =
                   Some(generateReply(env, ToTurns(reqs[r].history), outcome)),
               ![r].outcome = Some(outcome)]
    /\ UNCHANGED <<page, env, conversations, messages, response, started>>

NextTimeout ==
    \/ Next
    \/ TimeoutElapses("r1")

SpecTimeout == InitTimeout /\ [][NextTimeout]_vars

(***************************************************************************)
(* Requests served concurrently: the handlers are async functions, so two  *)
(* requests interleave at every await.  The process starts on a store that *)
(* holds one conversation with one answered send.                          *)
(***************************************************************************)
ConcEnvironments == {e \in Environments : HISTORY_LIMIT(e) <= 2}

ConcMessageInputs == {<<"a">>}
ConcSessionIdInputs == {Undefined, Some(<<"1">>)}

ConcOutcomes ==
    {o \in ProviderOutcomes :
        \/ o.kind = "throw" /\ o.err = TimeoutError
        \/ /\ o.kind = "completion"
           /\ o.completion \in
                 {[choices |-> Some(<<ChoiceWith(ContentOf("string", <<"b">>))>>)]}}

InitConc ==
    /\ env \in ConcEnvironments
    /\ conversations =
          <<[id |-> NewId(1), channel |-> "web", title |-> Some(<<"Web session">>),
             externalConversationId |-> Undefined]>>
    /\ messages =
          <<[id |-> NewId(1), createdAt |-> 1, conversationId |-> NewId(1),
             direction |-> "inbound", content |-> <<"a">>, metadata |-> Undefined],
            [id |-> NewId(2), createdAt |-> 2, conversationId |-> NewId(1),
             direction |-> "outbound", content |-> <<"b">>,
             metadata |-> Some([llm |-> [provider |-> "openai", model |-> DEFAULT_MODEL,
                                         usedFallback |-> FALSE]])]>>
    /\ now = 3
    /\ reqs = [r \in Requests |-> IdleRequest]
    /\ response = IdleRequest
    /\ started = 0
    /\ page = PageState({})

\* Sends arrive on both handles, at any time.  A getSession only reads, so
\* two of them at once show nothing that one does not: they arrive on the
\* second handle.
NextConc ==
    \/ Tick
    \/ \E r \in Requests, message \in ConcMessageInputs, sessionId \in ConcSessionIdInputs :
          PostChatMessage(r, message, sessionId)
    \/ \E r \in Requests : ResolveSession(r)
    \/ \E r \in Requests : PersistInbound(r)
    \/ \E r \in Requests : ReadHistory(r)
    \/ \E r \in Requests, outcome \in ConcOutcomes : GenerateReplyAtOnce(r, outcome)
    \/ \E r \in Requests : CallProvider(r)
    \/ \E r \in Requests, outcome \in ConcOutcomes : ProviderAnswers(r, outcome)
    \/ \E r \in Requests : PersistOutbound(r)
    \/ \E sessionId \in {<<"1">>, <<"2">>} : GetChatSession("r2", sessionId)
    \/ \E r \in Requests : FindSession(r)
    \/ \E r \in Requests : ListSession(r)

SpecConc == InitConc /\ [][NextConc]_vars

(***************************************************************************)
(* generateReply on its own: any caller's history, any provider behaviour. *)
(***************************************************************************)
OptionalStatus == {Undefined, Some(401), Some(408), Some(429), Some(500), Some(504)}
OptionalCode == {Undefined, Some("invalid_api_key"), Some("rate_limit_exceeded"),
                 Some("ETIMEDOUT")}

\* Values a failing call may throw: SDK errors with any mix of the fields the
\* classifier reads, and values with none of them (null, a string).
ThrownValues ==
    {ErrorValue(status, statusCode, code, name, message, error) :
        status \in OptionalStatus,
        statusCode \in {Undefined, Some(403)},
        code \in OptionalCode,
        name \in {Undefined, Some("AbortError")},
        message \in {Undefined, Some(<<"T", "i", "m", "e", "o", "u", "t">>)},
        error \in {Undefined, Some([status |-> Some(429), code |-> Undefined])}}
    \union ProviderErrors

GatewayOutcomes ==
    {[kind |-> kind, err |-> err, completion |-> NoCompletion] :
        kind \in {"construct_throw", "throw"}, err \in ThrownValues}
    \union {[kind |-> "completion", err |-> NoError, completion |-> c] : c \in Completions}

HistoryRow(n, direction) ==
    [id |-> NewId(n), createdAt |-> n, conversationId |-> NewId(1),
     direction |-> direction, content |-> <<"a", IdChars[n]>>, metadata |-> Undefined]

GatewayHistories ==
    {<<>>,
     <<HistoryRow(1, "inbound")>>,
     <<HistoryRow(1, "inbound"), HistoryRow(2, "outbound"), HistoryRow(3, "inbound")>>,
     <<HistoryRow(1, "outbound"), HistoryRow(2, "inbound"), HistoryRow(3, "inbound"),
       HistoryRow(4, "outbound")>>}

InitGateway ==
    /\ env \in Environments
    /\ conversations = <<>>
    /\ messages = <<>>
    /\ now = 1
    /\ \E history \in GatewayHistories :
          reqs = [r \in Requests |->
                    IF r = "r1"
                    THEN [IdleRequest EXCEPT !.pc = "generate", !.op = "send",
                                             !.history = history]
                    ELSE IdleRequest]
    /\ response = IdleRequest
    /\ started = 0
    /\ page = PageState({})

NextGateway ==
    \/ Tick
    \/ \E outcome \in GatewayOutcomes : GenerateReplyAtOnce("r1", outcome)
    \/ CallProvider("r1")
    \/ \E outcome \in GatewayOutcomes : ProviderAnswers("r1", outcome)

SpecGateway == InitGateway /\ [][NextGateway]_vars

(***************************************************************************)
(* The numeric settings: the gateway is called once under each setting of  *)
(* LLM_HISTORY_LIMIT, LLM_MAX_OUTPUT_TOKENS and LLM_TIMEOUT_MS.             *)
(***************************************************************************)
SettingValues ==
    {Undefined,
     Some(<<>>),
     Some(<<" ">>),
     Some(<<"z">>),
     Some(<<"1", "z">>),
     Some(<<"Infinity">>),
     Some(<<"0">>),
     Some(<<"-", "5">>),
     Some(<<" ", "2", ".", "9">>),
     Some(<<"-", "0", ".", "5">>),
     Some(<<"9", "9", "9", ".", "9">>),
     Some(<<"1", "5", "0", "0">>),
     Some(<<"2", "0", "0", "1">>),
     Some(<<"1", "2", "0", "0", "0", "1">>)}

SettingsEnvironments ==
    {[Environment(Some(<<"k">>), Undefined, historyLimit) EXCEPT
         !.LLM_MAX_OUTPUT_TOKENS = maxOutputTokens, !.LLM_TIMEOUT_MS = timeout] :
       historyLimit \in SettingValues, maxOutputTokens \in SettingValues,
       timeout \in SettingValues}

SettingsOutcomes == ConcOutcomes

InitSettings ==
    /\ env \in SettingsEnvironments
    /\ conversations = <<>>
    /\ messages = <<>>
    /\ now = 1
    /\ reqs = [r \in Requests |->
                 IF r = "r1"
                 THEN [IdleRequest EXCEPT
                         !.pc = "generate", !.op = "send",
                         !.history = <<HistoryRow(1, "inbound"), HistoryRow(2, "outbound"),
                                       HistoryRow(3, "inbound")>>]
                 ELSE IdleRequest]
    /\ response = IdleRequest
    /\ started = 0
    /\ page = PageState({})

NextSettings ==
    \/ Tick
    \/ CallProvider("r1")
    \/ \E outcome \in SettingsOutcomes : ProviderAnswers("r1", outcome)

SpecSettings == InitSettings /\ [][NextSettings]_vars

(***************************************************************************)
(* The chat page (+page.svelte) in a browser, and the answers the backend  *)
(* gives to its two requests.                                              *)
(***************************************************************************)
MAX_MESSAGE_CHARS == 4000
ENABLE_TYPING_INDICATOR == TRUE

\* The page's message list is followed up to this length.
MaxPageMessages == 4

UiMessage(direction, content) == [direction |-> direction, content |-> content]

errorToFriendlyMessage(errorCode) ==
    IF errorCode = Some("empty_message")
    THEN <<"Please type a message before sending.">>
    ELSE <<"Sorry, I'm having trouble right now. Please try again in a moment.">>

pushSystem(p, text) == [p EXCEPT !.messages = Append(@, UiMessage("system", text))]

pushAgent(p, text) == [p EXCEPT !.messages = Append(@, UiMessage("outbound", text))]

pushAgentError(p, errorCode) == pushAgent(p, errorToFriendlyMessage(errorCode))

\* upsertSession(id): localStorage.setItem succeeds.
upsertSession(p, id) == [p EXCEPT !.sessionId = Some(id), !.stored = Some(id)]

\* What a fetch and res.json() can give the page: a failure (fetch rejects, or
\* the body is no JSON), or a response with a status and a JSON body.
FetchFailure == [failed |-> TRUE, status |-> 0, body |-> [error |-> {}]]

JsonResponse(status, body) == [failed |-> FALSE, status |-> status, body |-> body]

\* res.ok
Ok(answer) == answer.status >= 200 /\ answer.status <= 299

\* Answers that do not come from the route handler's own code: a store
\* failure answered by the error handler, a 200 whose body lacks the fields,
\* and no answer at all.
OtherAnswers ==
    {FetchFailure,
     JsonResponse(500, [error |-> Some("internal_server_error")]),
     JsonResponse(200, [error |-> {}])}

\* GET /chat/:sessionId as the route answers it on the present store.
HistoryAnswers(id) ==
    IF findConversationById(id) = Undefined
    THEN {JsonResponse(404, [error |-> Some("not_found")])}
    ELSE {JsonResponse(200, [error |-> {}, sessionId |-> id, reply |-> lastReply(list),
                             messages |-> [i \in 1..Len(list) |-> ToDto(list[i])]]) :
            list \in listMessagesByConversationId(id)}

\* The page sends sessionId only when it is truthy.
BodySessionId(p) ==
    IF p.sessionId # Undefined /\ The(p.sessionId) # <<>> THEN p.sessionId ELSE Undefined

\* The drafts the user types: empty, blank, a message, a message too long.
LongDraft == [i \in 1..(MAX_MESSAGE_CHARS + 1) |-> "x"]
Drafts == {<<>>, <<" ">>, <<"a">>, LongDraft}

StoredValues == {Undefined, Some(<<" ">>), Some(<<"1">>), Some(<<"9">>)}

InitPage ==
    /\ env = Environment(Undefined, Undefined, Undefined)
    /\ conversations =
          <<[id |-> NewId(1), channel |-> "web", title |-> Some(<<"Web session">>),
             externalConversationId |-> Undefined]>>
    /\ messages =
          <<[id |-> NewId(1), createdAt |-> 1, conversationId |-> NewId(1),
             direction |-> "inbound", content |-> <<"a">>, metadata |-> Undefined],
            [id |-> NewId(2), createdAt |-> 2, conversationId |-> NewId(1),
             direction |-> "outbound", content |-> <<"b">>,
             metadata |-> Some([llm |-> [provider |-> "openai", model |-> DEFAULT_MODEL,
                                         usedFallback |-> TRUE,
                                         errorCode |-> "missing_api_key"]])]>>
    /\ now = 3
    /\ reqs = [r \in Requests |-> IdleRequest]
    /\ response = IdleRequest
    /\ started = 0
    /\ \E stored \in StoredValues : page = PageState(stored)

\* onMount, up to the fetch of loadHistory.
onMount ==
    /\ page.pc = "mount"
    /\ IF page.stored # Undefined /\ Len(Trim(The(page.stored))) > 0
       THEN page' = [page EXCEPT !.sessionId = page.stored, !.pc = "loading",
                                 !.fetching = page.stored]
       ELSE page' = [pushSystem(page, <<"Start a conversation below.">>) EXCEPT
                        !.isBooting = FALSE, !.pc = "ready"]
    /\ UNCHANGED <<env, conversations, messages, now, reqs, response, started>>

\* loadHistory from the answer on, and the finally of onMount.
loadHistory(answer) ==
    /\ page.pc = "loading"
    /\ answer \in HistoryAnswers(The(page.fetching)) \union OtherAnswers
    /\ LET p == [page EXCEPT !.isBooting = FALSE, !.pc = "ready", !.fetching = {},
                             !.answer = {answer}] IN
       page' =
          IF answer.failed THEN pushAgentError(p, Some("backend_unreachable"))
          ELSE IF ~Ok(answer)
          THEN IF answer.status = 404
               THEN pushAgentError([p EXCEPT !.stored = {}, !.sessionId = {}],
                                   answer.body.error)
               ELSE pushAgentError(p, answer.body.error)
          ELSE IF "sessionId" \notin DOMAIN answer.body \/ "messages" \notin DOMAIN answer.body
          THEN pushAgentError(p, Some("unexpected_response"))
          ELSE [upsertSession(p, answer.body.sessionId) EXCEPT
                   !.messages = [i \in 1..Len(answer.body.messages) |->
                                    UiMessage(answer.body.messages[i].direction,
                                              answer.body.messages[i].content)]]
    /\ UNCHANGED <<env, conversations, messages, now, reqs, response, started>>

\* bind:value={draft}: the textarea is enabled once the page has booted.
TypeDraft(text) ==
    /\ ~page.isBooting
    /\ page.draft # text
    /\ page' = [page EXCEPT !.draft = text]
    /\ UNCHANGED <<env, conversations, messages, now, reqs, response, started>>

\* send(), called by Enter in the textarea or by the form, up to its first
\* await: the two checks of the draft, the isSending guard, the optimistic
\* message.
send ==
    /\ ~page.isBooting
    /\ Len(page.messages) < MaxPageMessages
    /\ LET trimmed == Trim(page.draft) IN
       page' =
          IF Len(trimmed) = 0
          THEN [pushSystem(page, errorToFriendlyMessage(Some("empty_message"))) EXCEPT
                   !.draft = <<>>]
          ELSE IF Len(trimmed) > MAX_MESSAGE_CHARS
          THEN pushSystem(page, <<"Your message is too long. Please shorten it.">>)
          ELSE IF page.isSending THEN page
          ELSE [page EXCEPT
                   !.isSending = TRUE,
                   !.typingIndicator = ENABLE_TYPING_INDICATOR,
                   !.messages = Append(@, UiMessage("inbound", trimmed)),
                   !.draft = <<>>,
                   !.pc = "sending",
                   !.fetching = {trimmed},
                   !.answer = {}]
    /\ UNCHANGED <<env, conversations, messages, now, reqs, response, started>>

\* send(): fetch("/api/chat/message", {message: trimmed, sessionId?}) leaves.
sendFetches ==
    /\ page.pc = "sending"
    /\ page' = [page EXCEPT
          !.pc = "fetching",
          !.posts = @ + 1,
          !.fetching = {[message |-> The(page.fetching), sessionId |-> BodySessionId(page)]}]
    /\ UNCHANGED <<env, conversations, messages, now, reqs, response, started>>

\* The page as send() leaves it after the answer, finally included.
AfterSend(p, answer) ==
    LET q == [p EXCEPT !.typingIndicator = FALSE, !.isSending = FALSE, !.pc = "ready",
                       !.fetching = {}, !.posts = @ - 1, !.answer = {answer}] IN
    IF answer.failed THEN pushAgentError(q, Some("backend_unreachable"))
    ELSE IF ~Ok(answer) THEN pushAgentError(q, answer.body.error)
    ELSE IF "sessionId" \notin DOMAIN answer.body \/ "reply" \notin DOMAIN answer.body
    THEN pushAgentError(q, Some("unexpected_response"))
    ELSE pushAgent(upsertSession(q, answer.body.sessionId), answer.body.reply)

\* The two rows a send without credential inserts for the request.
RowsOfSend(conversationId, message) ==
    <<[createMessage([conversationId |-> conversationId, direction |-> "inbound",
                      content |-> userText(message), metadata |-> Undefined])
          EXCEPT !.id = NewId(Len(messages) + 1)],
      [createMessage([conversationId |-> conversationId, direction |-> "outbound",
                      content |-> fallbackReply,
                      metadata |-> Some([llm |-> safeLlmMeta(
                          FallbackResult(DEFAULT_MODEL, "missing_api_key").meta)])])
          EXCEPT !.id = NewId(Len(messages) + 2)]>>

\* POST /chat/message is served by sendChatMessage, without a credential, and
\* the page handles the answer.
sendAnswered ==
    /\ page.pc = "fetching"
    /\ LET request == The(page.fetching) IN
       IF CreatesConversation(request.sessionId)
       THEN LET c == createConversation(WebConversationInput) IN
            /\ conversations' = Append(conversations, c)
            /\ messages' = messages \o RowsOfSend(c.id, request.message)
            /\ page' = AfterSend(page, JsonResponse(200, [error |-> {}, sessionId |-> c.id,
                                                          reply |-> fallbackReply]))
       ELSE LET found == findConversationById(The(normalizedSessionId(request.sessionId))) IN
            /\ UNCHANGED conversations
            /\ messages' = IF found = Undefined THEN messages
                           ELSE messages \o RowsOfSend(The(found).id, request.message)
            /\ page' =
                  IF found = Undefined
                  THEN AfterSend(page, JsonResponse(404, [error |-> Some("invalid_session")]))
                  ELSE AfterSend(page, JsonResponse(200, [error |-> {},
                                                         sessionId |-> The(found).id,
                                                         reply |-> fallbackReply]))
    /\ UNCHANGED <<env, now, reqs, response, started>>

\* The request gets another answer, or none.
sendFails(answer) ==
    /\ page.pc = "fetching"
    /\ answer \in OtherAnswers
    /\ page' = AfterSend(page, answer)
    /\ UNCHANGED <<env, conversations, messages, now, reqs, response, started>>

NextPage ==
    \/ onMount
    \/ \E answer \in UNION {HistoryAnswers(id) : id \in {<<"1">>, <<"9">>}} \union OtherAnswers :
          loadHistory(answer)
    \/ \E text \in Drafts : TypeDraft(text)
    \/ send
    \/ sendFetches
    \/ sendAnswered
    \/ \E answer \in OtherAnswers : sendFails(answer)

SpecPage == InitPage /\ [][NextPage]_vars

(***************************************************************************)
(* Properties.                                                             *)
(***************************************************************************)
IdsOf(rows) == {rows[i].id : i \in 1..Len(rows)}

ErrorCodes ==
    {"missing_api_key", "empty_response", "invalid_api_key", "rate_limit", "timeout",
     "provider_error"}

\* The request answered last was a send / a getSession.
SendAnswered == response.op = "send" /\ response.pc \in {"done", "failed"}
GetAnswered == response.op = "get" /\ response.pc \in {"done", "failed"}

\* C1: a send whose message is not empty after trimming and whose sessionId is
\* absent or is the id of a conversation in the store is answered with
\* {reply, sessionId}, the reply a non-empty text, whatever the provider did.
C1_SendAlwaysReplies ==
    (/\ SendAnswered
     /\ Trim(response.message) # <<>>
     /\ \/ response.sessionId = Undefined
        \/ The(response.sessionId) \in IdsOf(response.before.conversations))
    => /\ response.pc = "done"
       /\ response.error = Undefined
       /\ response.result # Undefined
       /\ DOMAIN The(response.result) = {"reply", "sessionId"}
       /\ Trim(The(response.result).reply) # <<>>
       /\ The(response.result).sessionId \in IdsOf(conversations)

\* A send on an existing session is answered although the provider timed out.
C1_Witness ==
    /\ SendAnswered
    /\ response.pc = "done"
    /\ response.sessionId # Undefined
    /\ The(response.sessionId) \in IdsOf(response.before.conversations)
    /\ response.completions # <<>>
    /\ The(response.generated).meta.usedFallback
    /\ The(response.generated).meta.errorCode = "timeout"

\* The provider returned a completion whose first choice carries a text that
\* is not empty after trimming.
IsSuccessOutcome(o) ==
    /\ o.kind = "completion"
    /\ o.completion.choices # Undefined
    /\ Len(The(o.completion.choices)) > 0
    /\ The(o.completion.choices)[1].message # Undefined
    /\ The(The(o.completion.choices)[1].message).content.type = "string"
    /\ Trim(The(The(o.completion.choices)[1].message).content.text) # <<>>

\* A credential is configured: OPENAI_API_KEY is set and is not blank.
HasCredential(e) ==
    e.OPENAI_API_KEY # Undefined /\ Trim(The(e.OPENAI_API_KEY)) # <<>>

\* C2: generateReply returns {reply, meta} for every history and every
\* provider outcome; whenever the outcome is not a success (there is no
\* credential, the client cannot be built, the call throws, the completion is
\* malformed or carries no text) the reply is the fixed fallback, usedFallback
\* is true and an errorCode is present.
C2_GenerateReplyNeverRaises ==
    \A r \in Requests :
        reqs[r].pc = "outbound" =>
            /\ reqs[r].generated # Undefined
            /\ LET g == The(reqs[r].generated) IN
               /\ DOMAIN g = {"reply", "meta"}
               /\ {"provider", "model", "usedFallback"} \subseteq DOMAIN g.meta
               /\ g.meta.usedFallback \in BOOLEAN
               /\ ~(HasCredential(env) /\ IsSuccessOutcome(The(reqs[r].outcome))) =>
                     /\ g.reply = fallbackReply
                     /\ g.meta.usedFallback
                     /\ "errorCode" \in DOMAIN g.meta
                     /\ g.meta.errorCode \in ErrorCodes

\* generateReply has returned the fallback for a completion object without choices.
C2_Witness ==
    /\ reqs["r1"].pc = "outbound"
    /\ getOpenAiConfigFromEnv(env) # Undefined
    /\ Len(reqs["r1"].history) = 4
    /\ The(reqs["r1"].outcome).kind = "completion"
    /\ The(reqs["r1"].outcome).completion.choices = Undefined
    /\ The(reqs["r1"].generated).reply = fallbackReply
    /\ The(reqs["r1"].generated).meta.errorCode = "provider_error"

\* C3: a send whose message is empty after trimming is answered with
\* empty_message (400) and is never taken further: it creates no conversation,
\* persists no message and leaves both tables as it found them, with or
\* without a sessionId.
C3_EmptyMessageRejected ==
    /\ \A r \in Requests : reqs[r].op = "send" => Trim(reqs[r].message) # <<>>
    /\ (SendAnswered /\ Trim(response.message) = <<>>) =>
          /\ response.pc = "failed"
          /\ response.error = Some([statusCode |-> 400, code |-> "empty_message"])
          /\ response.result = Undefined
          /\ response.created = <<>>
          /\ response.persisted = <<>>
          /\ response.completions = <<>>
          /\ conversations = response.before.conversations
          /\ messages = response.before.messages

\* An all-white-space message with a sessionId was rejected while the store held rows.
C3_Witness ==
    /\ SendAnswered
    /\ response.message = <<" ">>
    /\ response.sessionId # Undefined
    /\ response.error = Some([statusCode |-> 400, code |-> "empty_message"])
    /\ messages # <<>>

\* C4 as stated: a send, or a getSession, whose sessionId string is not the id
\* of a stored conversation fails with 404, invalid_session for send and
\* not_found for getSession.
C4_UnknownSessionFails ==
    /\ (/\ SendAnswered
        /\ Trim(response.message) # <<>>
        /\ response.sessionId # Undefined
        /\ The(response.sessionId) \notin IdsOf(response.before.conversations))
       => /\ response.pc = "failed"
          /\ response.error = Some([statusCode |-> 404, code |-> "invalid_session"])
    /\ (/\ GetAnswered
        /\ The(response.sessionId) \notin IdsOf(response.before.conversations))
       => /\ response.pc = "failed"
          /\ response.error = Some([statusCode |-> 404, code |-> "not_found"])

\* C5: a send with a message that is not empty after trimming and no
\* sessionId adds exactly one conversation, with channel "web" and title
\* "Web session", leaves the conversations it found as they were, and returns
\* the id of the new conversation, which no conversation had before.
C5_NewSessionCreatesOneConversation ==
    (/\ SendAnswered
     /\ Trim(response.message) # <<>>
     /\ response.sessionId = Undefined)
    => LET old == response.before.conversations IN
       /\ response.pc = "done"
       /\ Len(conversations) = Len(old) + 1
       /\ \A i \in 1..Len(old) : conversations[i] = old[i]
       /\ conversations[Len(conversations)].channel = "web"
       /\ conversations[Len(conversations)].title = Some(<<"Web session">>)
       /\ conversations[Len(conversations)].id \notin IdsOf(old)
       /\ The(response.result).sessionId = conversations[Len(conversations)].id
       /\ response.created = <<conversations[Len(conversations)].id>>

\* A send without sessionId was answered when the store already held a conversation.
C5_Witness ==
    /\ SendAnswered
    /\ response.pc = "done"
    /\ response.sessionId = Undefined
    /\ Len(response.before.conversations) = 1
    /\ Len(conversations) = 2
    /\ The(response.result).sessionId = <<"2">>

\* The rows of a conversation in the order they were inserted.
InsertedIn(conversationId) ==
    LET OfConversation(m) == m.conversationId = conversationId IN
    SelectSeq(messages, OfConversation)

\* The N rows of a conversation inserted last, oldest first.
MostRecent(conversationId, N) ==
    LET rows == InsertedIn(conversationId) IN
    SubSeq(rows, (IF Len(rows) > N THEN Len(rows) - N ELSE 0) + 1, Len(rows))

\* C6 as stated: in a send that calls the provider, the history read for it
\* is at most N messages long, N the configured history limit, and it is the
\* N messages of the conversation created last, oldest first; the provider
\* receives one turn for each of them, in that order, after the two system
\* messages.
C6_HistoryIsMostRecentN ==
    [][\A r \in Requests :
          /\ (HasCredential(env) /\ reqs[r].pc = "history" /\ reqs'[r].pc = "generate") =>
                /\ Len(reqs'[r].history) <= HISTORY_LIMIT(env)
                /\ reqs'[r].history =
                      MostRecent(The(reqs[r].conversation).id, HISTORY_LIMIT(env))
          /\ (reqs[r].pc = "generate" /\ reqs'[r].pc = "waiting") =>
                LET sent == reqs'[r].completions[Len(reqs'[r].completions)].messages IN
                /\ Len(sent) - 2 <= HISTORY_LIMIT(env)
                /\ Len(sent) - 2 = Len(reqs[r].history)
                /\ \A i \in 1..Len(reqs[r].history) :
                      sent[i + 2].content = reqs[r].history[i].content
      ]_vars

\* C7 as stated: a getSession on a conversation that two sends, one after the
\* other, have answered returns its four messages in the order they were
\* written: inbound, outbound, inbound, outbound.
C7_SessionListsInOrder ==
    (GetAnswered /\ response.pc = "done") =>
        LET rows == InsertedIn(The(response.result).sessionId)
            listed == The(response.result).messages IN
        Len(rows) = 4 =>
            /\ Len(listed) = 4
            /\ \A i \in 1..4 : listed[i].id = rows[i].id
            /\ <<listed[1].direction, listed[2].direction,
                 listed[3].direction, listed[4].direction>>
                  = <<"inbound", "outbound", "inbound", "outbound">>

\* C8: a send that is answered with a reply has added two messages to the
\* store, both in the conversation it returns: first an inbound one holding
\* the trimmed request text, then an outbound one holding the returned reply;
\* every message that was there before is as it was.
C8_SendAddsTwoMessages ==
    (SendAnswered /\ response.pc = "done") =>
        LET old == response.before.messages
            n == Len(old) IN
        /\ Len(messages) = n + 2
        /\ \A i \in 1..n : messages[i] = old[i]
        /\ messages[n + 1].conversationId = The(response.result).sessionId
        /\ messages[n + 1].direction = "inbound"
        /\ messages[n + 1].content = Trim(response.message)
        /\ messages[n + 2].conversationId = The(response.result).sessionId
        /\ messages[n + 2].direction = "outbound"
        /\ messages[n + 2].content = The(response.result).reply
        /\ response.persisted = <<messages[n + 1].id, messages[n + 2].id>>

\* A padded text was sent while the store held the messages of another
\* conversation, and was answered with the fallback.
C8_Witness ==
    /\ SendAnswered
    /\ response.pc = "done"
    /\ response.message = <<" ", "a", " ">>
    /\ response.before.messages # <<>>
    /\ The(response.generated).meta.usedFallback
    /\ \E i \in 1..Len(messages) :
          messages[i].conversationId # The(response.result).sessionId

\* C9: without a credential (OPENAI_API_KEY unset, empty or blank)
\* generateReply returns the fixed fallback with usedFallback true and
\* errorCode "missing_api_key", and the send makes no call to the provider.
C9_NoCredentialNoCall ==
    ~HasCredential(env) =>
        /\ \A r \in Requests :
              /\ reqs[r].pc # "waiting"
              /\ reqs[r].completions = <<>>
              /\ reqs[r].pc = "outbound" =>
                    /\ The(reqs[r].generated).reply = fallbackReply
                    /\ The(reqs[r].generated).meta.usedFallback
                    /\ DOMAIN The(reqs[r].generated).meta =
                          {"provider", "model", "usedFallback", "errorCode"}
                    /\ The(reqs[r].generated).meta.errorCode = "missing_api_key"
        /\ (SendAnswered /\ response.pc = "done") =>
              /\ response.completions = <<>>
              /\ The(response.result).reply = fallbackReply
              /\ The(response.generated).meta.errorCode = "missing_api_key"

\* With a blank OPENAI_API_KEY a send was answered with the fallback.
C9_Witness ==
    /\ env.OPENAI_API_KEY = Some(<<" ">>)
    /\ SendAnswered
    /\ response.pc = "done"
    /\ response.completions = <<>>
    /\ The(response.generated).meta.errorCode = "missing_api_key"

\* The completion carries no text: there is no first choice, the choice has
\* no message, the content is null, or it is a string that is blank.
IsBlankOutput(completion) ==
    /\ completion.choices # Undefined
    /\ \/ Len(The(completion.choices)) = 0
       \/ The(completion.choices)[1].message = Undefined
       \/ The(The(completion.choices)[1].message).content.type = "null"
       \/ /\ The(The(completion.choices)[1].message).content.type = "string"
          /\ Trim(The(The(completion.choices)[1].message).content.text) = <<>>

\* C10: when the provider call returns a completion whose output is absent,
\* empty or blank, generateReply returns the fixed fallback with usedFallback
\* true and errorCode "empty_response".
C10_BlankOutputIsEmptyResponse ==
    \A r \in Requests :
        (/\ reqs[r].pc = "outbound"
         /\ HasCredential(env)
         /\ The(reqs[r].outcome).kind = "completion"
         /\ IsBlankOutput(The(reqs[r].outcome).completion))
        => /\ The(reqs[r].generated).reply = fallbackReply
           /\ The(reqs[r].generated).meta.usedFallback
           /\ "errorCode" \in DOMAIN The(reqs[r].generated).meta
           /\ The(reqs[r].generated).meta.errorCode = "empty_response"

\* The provider answered with a blank string and generateReply fell back.
C10_Witness ==
    /\ reqs["r1"].pc = "outbound"
    /\ reqs["r1"].completions # <<>>
    /\ The(reqs["r1"].outcome).kind = "completion"
    /\ The(reqs["r1"].outcome).completion =
          [choices |-> Some(<<ChoiceWith(ContentOf("string", <<" ">>))>>)]
    /\ The(reqs["r1"].generated).meta.errorCode = "empty_response"

\* The text of the first choice of a completion that carries one.
OutputText(completion) == The(The(completion.choices)[1].message).content.text

\* C11: when the provider call returns a text that is not empty after
\* trimming, generateReply returns that trimmed text with usedFallback false
\* and without errorCode; usedFallback is false in no other case; and the
\* result has an errorCode exactly when usedFallback is true.
C11_SuccessIsTrimmedOutput ==
    \A r \in Requests :
        reqs[r].pc = "outbound" =>
            LET g == The(reqs[r].generated)
                o == The(reqs[r].outcome)
                success == HasCredential(env) /\ IsSuccessOutcome(o) IN
            /\ success => /\ g.reply = Trim(OutputText(o.completion))
                          /\ g.meta.usedFallback = FALSE
                          /\ DOMAIN g.meta = {"provider", "model", "usedFallback"}
            /\ g.meta.usedFallback = FALSE => success
            /\ ("errorCode" \in DOMAIN g.meta) <=> g.meta.usedFallback

\* The provider answered with a padded text and generateReply returned it trimmed.
C11_Witness ==
    /\ reqs["r1"].pc = "outbound"
    /\ reqs["r1"].completions # <<>>
    /\ The(reqs["r1"].outcome).kind = "completion"
    /\ The(reqs["r1"].outcome).completion =
          [choices |-> Some(<<ChoiceWith(ContentOf("string", <<" ", "b", " ">>))>>)]
    /\ The(reqs["r1"].generated).reply = <<"b">>
    /\ The(reqs["r1"].generated).meta.usedFallback = FALSE

\* The HTTP status a thrown value carries: err.status, else err.statusCode,
\* else err.error.status.
StatusOf(err) ==
    IF err.status # Undefined THEN err.status
    ELSE IF err.statusCode # Undefined THEN err.statusCode
    ELSE IF err.error # Undefined THEN The(err.error).status
    ELSE Undefined

\* The error code a thrown value carries: err.code, else err.error.code.
CodeOf(err) ==
    IF err.code # Undefined THEN err.code
    ELSE IF err.error # Undefined THEN The(err.error).code
    ELSE Undefined

IsUnauthorized(err) ==
    StatusOf(err) \in {Some(401), Some(403)} \/ CodeOf(err) = Some("invalid_api_key")

IsRateLimited(err) ==
    StatusOf(err) = Some(429) \/ CodeOf(err) = Some("rate_limit_exceeded")

\* An abort or a timeout shown by the name, the code or the message.
HasTimeoutSignal(err) ==
    \/ err.name = Some("AbortError")
    \/ CodeOf(err) \in {Some("ETIMEDOUT"), Some("ECONNABORTED")}
    \/ /\ err.message # Undefined
       /\ \/ Includes(ToLowerCase(The(err.message)), <<"t", "i", "m", "e", "o", "u", "t">>)
          \/ Includes(ToLowerCase(The(err.message)),
                      <<"t", "i", "m", "e", "d", " ", "o", "u", "t">>)

\* A status that tells of a timeout: 408 Request Timeout, 504 Gateway Timeout.
HasTimeoutStatus(err) == StatusOf(err) \in {Some(408), Some(504)}

\* generateReply has returned after the provider call threw.
CallFailed(r) ==
    /\ reqs[r].pc = "outbound"
    /\ HasCredential(env)
    /\ The(reqs[r].outcome).kind = "throw"

\* C12 as stated: a failed provider call is classified invalid_api_key when it
\* shows an unauthorized or forbidden status or the invalid-credential code,
\* else rate_limit when it shows the rate-limit status or code, else timeout
\* when it shows any abort or timeout indication (name, code, message wording
\* or a timeout-like status), else provider_error; the fallback result
\* carries that errorCode.
C12_ClassifiedByPrecedence ==
    \A r \in Requests :
        CallFailed(r) =>
            LET err == The(reqs[r].outcome).err
                g == The(reqs[r].generated) IN
            /\ g.reply = fallbackReply
            /\ g.meta.usedFallback
            /\ g.meta.errorCode =
                  IF IsUnauthorized(err) THEN "invalid_api_key"
                  ELSE IF IsRateLimited(err) THEN "rate_limit"
                  ELSE IF HasTimeoutSignal(err) \/ HasTimeoutStatus(err) THEN "timeout"
                  ELSE "provider_error"

\* C13 as stated: a failed provider call that shows no unauthorized,
\* forbidden or rate-limit indication and whose only timeout indication is a
\* timeout-like status (408, 504) is classified timeout.
C13_TimeoutStatusIsTimeout ==
    \A r \in Requests :
        (/\ CallFailed(r)
         /\ ~IsUnauthorized(The(reqs[r].outcome).err)
         /\ ~IsRateLimited(The(reqs[r].outcome).err)
         /\ ~HasTimeoutSignal(The(reqs[r].outcome).err)
         /\ HasTimeoutStatus(The(reqs[r].outcome).err))
        => The(reqs[r].generated).meta.errorCode = "timeout"

\* C14: every outbound message in the store carries metadata {llm: {provider,
\* model, usedFallback, errorCode?}} and nothing else, every inbound message
\* carries none, and the outbound message of the send answered last has the
\* usedFallback of the gateway result that gave its reply, and an errorCode
\* exactly when that result had one, with the same value.
C14_OutboundMetadataIsSafe ==
    /\ \A i \in 1..Len(messages) :
          IF messages[i].direction = "inbound"
          THEN messages[i].metadata = Undefined
          ELSE /\ messages[i].metadata # Undefined
               /\ DOMAIN The(messages[i].metadata) = {"llm"}
               /\ {"provider", "model", "usedFallback"}
                     \subseteq DOMAIN The(messages[i].metadata).llm
               /\ DOMAIN The(messages[i].metadata).llm
                     \subseteq {"provider", "model", "usedFallback", "errorCode"}
    /\ (SendAnswered /\ response.pc = "done") =>
          LET g == The(response.generated)
              m == messages[Len(messages)]
              llm == The(m.metadata).llm IN
          /\ m.id = response.persisted[2]
          /\ m.direction = "outbound"
          /\ m.content = g.reply
          /\ llm.provider = g.meta.provider
          /\ llm.model = g.meta.model
          /\ llm.usedFallback = g.meta.usedFallback
          /\ ("errorCode" \in DOMAIN llm) <=> ("errorCode" \in DOMAIN g.meta)
          /\ "errorCode" \in DOMAIN llm => llm.errorCode = g.meta.errorCode

\* A send answered with the fallback after a timeout stored its errorCode,
\* next to the outbound message of a send the provider answered.
C14_Witness ==
    /\ SendAnswered
    /\ response.pc = "done"
    /\ The(response.generated).meta.usedFallback
    /\ The(messages[Len(messages)].metadata).llm.errorCode = "timeout"
    /\ \E i \in 1..Len(messages) :
          /\ messages[i].direction = "outbound"
          /\ ~The(messages[i].metadata).llm.usedFallback

\* Credentials other than the ones the process environments hold.
OtherCredentials == {<<"j">>, <<" ", "j", "j">>}

\* The process environment with another credential.
WithCredential(e, key) == [e EXCEPT !.OPENAI_API_KEY = Some(key)]

\* No field of a stored message is the credential.
CredentialNotStored ==
    \A i \in 1..Len(messages) :
        LET m == messages[i]
            secrets == {The(env.OPENAI_API_KEY), Trim(The(env.OPENAI_API_KEY))} IN
        /\ m.content \notin secrets
        /\ m.id \notin secrets
        /\ m.metadata # Undefined =>
              /\ The(m.metadata).llm.model \notin secrets
              /\ "errorCode" \in DOMAIN The(m.metadata).llm =>
                    The(m.metadata).llm.errorCode \in ErrorCodes

\* C15: with a credential configured, every step a send takes is the step it
\* would take, on the same store and with the same provider outcome, under
\* any other non-empty credential: the same history is read, the same request
\* goes to the provider, generateReply returns the same result, and the same
\* outbound message, metadata and reply are stored and returned; and no
\* stored field holds the credential or anything of a thrown error but its
\* errorCode.
C15_CredentialIndependent ==
    [][HasCredential(env) =>
         /\ messages' # messages => CredentialNotStored'
         /\ \A r \in Requests, key \in OtherCredentials :
               reqs'[r] # reqs[r] =>
               LET other == WithCredential(env, key)
                   turns == ToTurns(reqs[r].history) IN
               /\ (reqs[r].pc = "history" /\ reqs'[r].pc = "generate") =>
                     reqs'[r].history \in
                        listRecentMessagesByConversationId(The(reqs[r].conversation).id,
                                                           HISTORY_LIMIT(other))
               /\ (reqs[r].pc = "generate" /\ reqs'[r].pc = "waiting") =>
                     /\ getOpenAiConfigFromEnv(other) # Undefined
                     /\ reqs'[r].completions =
                           Append(reqs[r].completions,
                                  CompletionRequest(other,
                                                    The(getOpenAiConfigFromEnv(other)).model,
                                                    turns))
               /\ (reqs[r].pc \in {"generate", "waiting"} /\ reqs'[r].pc = "outbound") =>
                     /\ reqs[r].pc = "generate" =>
                           ReturnsAtOnce(other, The(reqs'[r].outcome))
                     /\ reqs'[r].generated =
                           Some(generateReply(other, turns, The(reqs'[r].outcome)))
               /\ (reqs[r].pc = "outbound" /\ reqs'[r].pc = "idle") =>
                     LET g == generateReply(other, turns, The(reqs[r].outcome))
                         m == messages'[Len(messages')] IN
                     /\ m.content = g.reply
                     /\ The(m.metadata).llm.model = g.meta.model
                     /\ The(m.metadata).llm.usedFallback = g.meta.usedFallback
                     /\ ("errorCode" \in DOMAIN The(m.metadata).llm)
                           <=> ("errorCode" \in DOMAIN g.meta)
                     /\ "errorCode" \in DOMAIN g.meta =>
                           The(m.metadata).llm.errorCode = g.meta.errorCode
                     /\ The(response'.result).reply = g.reply
      ]_vars

\* With a credential configured, the provider call threw an error and the
\* send stored and returned the fallback.
C15_Witness ==
    /\ HasCredential(env)
    /\ SendAnswered
    /\ response.pc = "done"
    /\ response.completions # <<>>
    /\ The(response.generated).meta.errorCode = "provider_error"
    /\ messages[Len(messages)].content = fallbackReply

\* C16 as stated: getSession leaves both tables as they are, and a getSession
\* answered right after another one on the same session, no send having
\* arrived since, returns the same result, message list and order included.
C16_GetSessionIdempotent ==
    [][\A r \in Requests :
          reqs[r].op = "get" =>
              /\ conversations' = conversations
              /\ messages' = messages
              /\ (/\ reqs[r].pc = "list"
                  /\ reqs'[r].pc = "idle"
                  /\ GetAnswered
                  /\ response.pc = "done"
                  /\ response.sessionId = reqs[r].sessionId)
                 => response'.result = response.result
      ]_vars

\* C17: a getSession on an existing session is answered; its reply is the
\* content of the last outbound message of the list it returns, or the empty
\* text when the list has none; its sessionId is the id of the conversation;
\* and its list holds each message of the conversation once, as stored, and
\* no message of another conversation.
C17_GetSessionResult ==
    [][\A r \in Requests :
          /\ (/\ reqs[r].pc = "find"
              /\ reqs'[r].pc # "find"
              /\ The(reqs[r].sessionId) \in IdsOf(conversations))
             => reqs'[r].pc = "list"
          /\ (reqs[r].pc = "list" /\ reqs'[r].pc = "idle") =>
                LET id == The(reqs[r].sessionId)
                    res == The(response'.result)
                    rows == InsertedIn(id)
                    outbound == {i \in 1..Len(res.messages) :
                                    res.messages[i].direction = "outbound"} IN
                /\ response'.pc = "done"
                /\ res.sessionId = id
                /\ Len(res.messages) = Len(rows)
                /\ \A i \in 1..Len(rows) :
                      \E j \in 1..Len(res.messages) :
                         /\ res.messages[j].id = rows[i].id
                         /\ res.messages[j].direction = rows[i].direction
                         /\ res.messages[j].content = rows[i].content
                /\ outbound = {} => res.reply = <<>>
                /\ outbound # {} =>
                      \E i \in outbound :
                         /\ \A j \in outbound : j <= i
                         /\ res.reply = res.messages[i].content
      ]_vars

\* A getSession was answered with an empty reply and one inbound message
\* while the first send of the conversation waits on the provider.
C17_Witness ==
    /\ GetAnswered
    /\ response.pc = "done"
    /\ The(response.result).reply = <<>>
    /\ Len(The(response.result).messages) = 1
    /\ \E r \in Requests :
          /\ reqs[r].pc = "waiting"
          /\ The(reqs[r].conversation).id = The(response.result).sessionId

\* C18: while the provider is being called, the message list it received is
\* the system policy text, the FAQ text, and then the last min(n, N) of the n
\* history messages of the send, in their order, each with role user when it
\* is inbound and assistant when it is outbound, and with its content.
C18_ProviderMessages ==
    \A r \in Requests :
        reqs[r].pc = "waiting" =>
            LET sent == reqs[r].completions[Len(reqs[r].completions)].messages
                h == reqs[r].history
                k == IF Len(h) < HISTORY_LIMIT(env) THEN Len(h) ELSE HISTORY_LIMIT(env) IN
            /\ Len(sent) = 2 + k
            /\ sent[1] = [role |-> "system", content |-> SYSTEM_PROMPT]
            /\ sent[2] = [role |-> "system", content |-> FAQ_KNOWLEDGE]
            /\ \A i \in 1..k :
                  /\ sent[2 + i].content = h[Len(h) - k + i].content
                  /\ sent[2 + i].role =
                        IF h[Len(h) - k + i].direction = "inbound" THEN "user"
                        ELSE "assistant"

\* The provider is being called with the two system messages and the last two
\* of four history messages, the last of them an assistant turn.
C18_Witness ==
    /\ reqs["r1"].pc = "waiting"
    /\ Len(reqs["r1"].history) = 4
    /\ Len(reqs["r1"].completions[1].messages) = 4
    /\ reqs["r1"].completions[1].messages[3].role = "user"
    /\ reqs["r1"].completions[1].messages[4].role = "assistant"

\* Table `later` is table `earlier` with rows appended.
IsExtension(earlier, later) ==
    /\ Len(earlier) <= Len(later)
    /\ \A i \in 1..Len(earlier) : later[i] = earlier[i]

\* The entries of a are found in b in the same relative order.
RECURSIVE IsSubsequence(_, _)
IsSubsequence(a, b) ==
    IF a = <<>> THEN TRUE
    ELSE IF b = <<>> THEN FALSE
    ELSE IF a[1] = b[1] THEN IsSubsequence(Tail(a), Tail(b))
    ELSE IsSubsequence(a, Tail(b))

\* C19 as stated: no step changes or removes a stored conversation or
\* message, rows are only appended; and the message list a getSession
\* returns contains the list the getSession before it returned for the same
\* session, in the same relative order.
C19_AppendOnly ==
    [][/\ IsExtension(conversations, conversations')
       /\ IsExtension(messages, messages')
       /\ \A r \in Requests :
             (/\ reqs[r].pc = "list"
              /\ reqs'[r].pc = "idle"
              /\ GetAnswered
              /\ response.pc = "done"
              /\ response.sessionId = reqs[r].sessionId)
             => IsSubsequence(The(response.result).messages,
                              The(response'.result).messages)
      ]_vars

\* The place of the row with this id in the Message table.
InsertionIndex(id) == CHOOSE i \in 1..Len(messages) : messages[i].id = id

\* The list is ordered by creation time, rows of equal creation time in the
\* order they were inserted.
InCreationOrder(list) ==
    \A i, j \in 1..Len(list) :
        i < j =>
            \/ list[i].createdAt < list[j].createdAt
            \/ /\ list[i].createdAt = list[j].createdAt
               /\ InsertionIndex(list[i].id) < InsertionIndex(list[j].id)

\* C20 as stated: the list getSession reads and the history send reads are
\* ordered by creation time with rows of equal creation time in insertion
\* order, and the history holds the N rows that are last in that order.
C20_TiesByInsertionOrder ==
    [][\A r \in Requests :
          /\ (reqs[r].pc = "history" /\ reqs'[r].pc = "generate") =>
                /\ InCreationOrder(reqs'[r].history)
                /\ {reqs'[r].history[i].id : i \in 1..Len(reqs'[r].history)} =
                      IdsOf(MostRecent(The(reqs[r].conversation).id, HISTORY_LIMIT(env)))
          /\ (reqs[r].pc = "list" /\ reqs'[r].pc = "idle") =>
                \A i, j \in 1..Len(The(response'.result).messages) :
                    i < j =>
                        InsertionIndex(The(response'.result).messages[i].id)
                           < InsertionIndex(The(response'.result).messages[j].id)
      ]_vars

\* C21: when a repository call of a send or of a getSession fails, the
\* request is answered with a status of 500 or more and without a reply, and
\* it ends there: the failing step changes neither table, the request makes
\* no call to the provider beyond those it had made, and it takes no further
\* step.
C21_StoreFailureIsFatal ==
    [][\A r \in Requests :
          (reqs[r].pc \in StoreSteps /\ reqs'[r].pc = "idle"
           /\ response'.thrown # Undefined) =>
              /\ response'.pc = "failed"
              /\ The(response'.error).statusCode >= 500
              /\ The(response'.error).statusCode < 600
              /\ response'.result = Undefined
              /\ response'.op = reqs[r].op
              /\ response'.completions = reqs[r].completions
              /\ response'.persisted = reqs[r].persisted
              /\ conversations' = conversations
              /\ messages' = messages
              /\ reqs'[r] = IdleRequest
      ]_vars

\* The store failed when a send was about to persist the reply the provider
\* gave: the send was answered 500 and the reply is in no message.
C21_Witness ==
    /\ SendAnswered
    /\ response.pc = "failed"
    /\ response.thrown # Undefined
    /\ response.generated # Undefined
    /\ ~The(response.generated).meta.usedFallback
    /\ Len(response.persisted) = 1
    /\ The(response.error).statusCode = 500

C22_WitnessExisting ==
    /\ SendAnswered
    /\ response.pc = "done"
    /\ response.sessionId = Some(<<"1">>)
    /\ response.created = <<>>

\* The steps of a send, in the order of sendChatMessage.
SendSteps == <<"resolve", "inbound", "history", "generate", "waiting", "outbound">>

StepIndex(pc) == CHOOSE i \in 1..Len(SendSteps) : SendSteps[i] = pc

\* The stored message with the given id.
MessageById(rows, id) == CHOOSE m \in Range(rows) : m.id = id

\* C23: a send takes its steps in the order resolve, persist inbound, read
\* history, call the provider, persist outbound, return, and none twice: each
\* step of a send moves it to a later step or ends it; the completion request
\* is sent only once, from the step after the history was read, when the
\* inbound message of the send is stored; the gateway returns only after the
\* inbound message is stored; the outbound message is stored only after the
\* gateway has returned; and the reply is returned only in the step that
\* has stored it as the outbound message.
C23_StepsInOrder ==
    [][\A r \in Requests :
          (reqs[r].op = "send" /\ reqs'[r] # reqs[r]) =>
              /\ \/ reqs'[r].pc = "idle"
                 \/ /\ reqs'[r].op = "send"
                    /\ StepIndex(reqs'[r].pc) > StepIndex(reqs[r].pc)
                    /\ (reqs[r].pc \in {"resolve", "inbound", "history"} =>
                           StepIndex(reqs'[r].pc) = StepIndex(reqs[r].pc) + 1)
              /\ (reqs'[r].pc # "idle" /\ reqs'[r].completions # reqs[r].completions) =>
                     /\ reqs[r].pc = "generate"
                     /\ reqs[r].completions = <<>>
                     /\ Len(reqs'[r].completions) = 1
                     /\ reqs[r].generated = Undefined
                     /\ Len(reqs[r].persisted) = 1
                     /\ \E m \in Range(messages) :
                           /\ m.id = reqs[r].persisted[1]
                           /\ m.direction = "inbound"
              /\ (reqs'[r].pc # "idle" /\ reqs'[r].generated # reqs[r].generated) =>
                     /\ reqs[r].pc \in {"generate", "waiting"}
                     /\ reqs[r].generated = Undefined
                     /\ Len(reqs[r].persisted) = 1
              /\ (reqs'[r].pc # "idle" /\ reqs'[r].persisted # reqs[r].persisted) =>
                     /\ reqs[r].pc = "inbound"
                     /\ reqs[r].persisted = <<>>
                     /\ reqs[r].conversation # Undefined
              /\ (reqs'[r].pc = "idle" /\ response'.pc = "done") =>
                     /\ reqs[r].pc = "outbound"
                     /\ reqs[r].generated # Undefined
                     /\ Len(response'.completions) <= 1
                     /\ Len(reqs[r].persisted) = 1
                     /\ Len(response'.persisted) = 2
                     /\ Len(messages') = Len(messages) + 1
                     /\ LET out == messages'[Len(messages')] IN
                        /\ out.id = response'.persisted[2]
                        /\ out.direction = "outbound"
                        /\ out.content = The(response'.result).reply
                        /\ out.content = The(reqs[r].generated).reply
      ]_vars

\* A send that called the provider once has returned the reply of the
\* provider, stored as its outbound message after its inbound message.
C23_Witness ==
    /\ SendAnswered
    /\ response.pc = "done"
    /\ Len(response.completions) = 1
    /\ ~The(response.generated).meta.usedFallback
    /\ Len(response.persisted) = 2
    /\ MessageById(messages, response.persisted[1]).direction = "inbound"
    /\ MessageById(messages, response.persisted[2]).direction = "outbound"

\* What each setting is to mean: number tells whether the text is a number,
\* and truncated is that number with its fraction dropped, toward zero.
SettingCases ==
    {[setting |-> Undefined, number |-> FALSE, truncated |-> 0],
     [setting |-> Some(<<>>), number |-> FALSE, truncated |-> 0],
     [setting |-> Some(<<" ">>), number |-> FALSE, truncated |-> 0],
     [setting |-> Some(<<"z">>), number |-> FALSE, truncated |-> 0],
     [setting |-> Some(<<"1", "z">>), number |-> FALSE, truncated |-> 0],
     [setting |-> Some(<<"Infinity">>), number |-> FALSE, truncated |-> 0],
     [setting |-> Some(<<"0">>), number |-> TRUE, truncated |-> 0],
     [setting |-> Some(<<"-", "5">>), number |-> TRUE, truncated |-> 0 - 5],
     [setting |-> Some(<<" ", "2", ".", "9">>), number |-> TRUE, truncated |-> 2],
     [setting |-> Some(<<"-", "0", ".", "5">>), number |-> TRUE, truncated |-> 0],
     [setting |-> Some(<<"9", "9", "9", ".", "9">>), number |-> TRUE, truncated |-> 999],
     [setting |-> Some(<<"1", "5", "0", "0">>), number |-> TRUE, truncated |-> 1500],
     [setting |-> Some(<<"2", "0", "0", "1">>), number |-> TRUE, truncated |-> 2001],
     [setting |-> Some(<<"1", "2", "0", "0", "0", "1">>), number |-> TRUE,
      truncated |-> 120001]}

CaseOf(setting) == CHOOSE c \in SettingCases : c.setting = setting

\* The effective value the claim gives a setting with the range and default.
Expected(setting, min, max, default) ==
    LET c == CaseOf(setting) IN
    IF ~c.number THEN default
    ELSE IF c.truncated < min THEN min
    ELSE IF c.truncated > max THEN max
    ELSE c.truncated

\* C25: each numeric setting has an integer in its range as effective value,
\* the history limit in 1..100, the maximum output size in 1..2000, the timeout
\* in 1000..120000; a setting that is absent, empty, blank or not a finite
\* number yields the default (20, 250, 15000); a number is truncated toward
\* zero and then brought to the nearest bound of the range; and the request
\* sent to the provider carries the effective values.
C25_SettingsClamped ==
    /\ HISTORY_LIMIT(env) \in 1..100
    /\ MAX_HISTORY_MESSAGES(env) \in 1..100
    /\ MAX_OUTPUT_TOKENS(env) \in 1..2000
    /\ timeoutMs(env) \in 1000..120000
    /\ HISTORY_LIMIT(env) = Expected(env.LLM_HISTORY_LIMIT, 1, 100, 20)
    /\ MAX_HISTORY_MESSAGES(env) = Expected(env.LLM_HISTORY_LIMIT, 1, 100, 20)
    /\ MAX_OUTPUT_TOKENS(env) = Expected(env.LLM_MAX_OUTPUT_TOKENS, 1, 2000, 250)
    /\ timeoutMs(env) = Expected(env.LLM_TIMEOUT_MS, 1000, 120000, 15000)
    /\ \A i \in 1..Len(reqs["r1"].completions) :
          LET sent == reqs["r1"].completions[i] IN
          /\ sent.max_tokens = Expected(env.LLM_MAX_OUTPUT_TOKENS, 1, 2000, 250)
          /\ Len(sent.messages) =
                2 + Min(Len(reqs["r1"].history), Expected(env.LLM_HISTORY_LIMIT, 1, 100, 20))

\* A request was sent under a history limit of " 2.9", a maximum output size
\* of "2001" and a timeout of "999.9": two turns, 2000 tokens, 1000 ms.
C25_Witness ==
    /\ env.LLM_HISTORY_LIMIT = Some(<<" ", "2", ".", "9">>)
    /\ env.LLM_MAX_OUTPUT_TOKENS = Some(<<"2", "0", "0", "1">>)
    /\ env.LLM_TIMEOUT_MS = Some(<<"9", "9", "9", ".", "9">>)
    /\ Len(reqs["r1"].completions) = 1
    /\ reqs["r1"].completions[1].max_tokens = 2000
    /\ Len(reqs["r1"].completions[1].messages) = 4
    /\ timeoutMs(env) = 1000

\* C24 as stated: a provider call that has not answered when the timeout has
\* elapsed is ended then, so that no send is waiting on the provider one
\* timeout period after its call began, and a send whose call was ended by the
\* timeout has waited one period and returns the fallback reply with
\* errorCode "timeout".
C24_EndsAtTimeout ==
    /\ \A r \in Requests :
          reqs[r].pc = "waiting" => now - reqs[r].sentAt < timeoutMs(env)
    /\ \A r \in Requests :
          reqs[r].timeouts > 0 =>
             /\ reqs[r].timeouts = 1
             /\ reqs[r].pc = "outbound"
             /\ The(reqs[r].generated).meta.usedFallback
             /\ The(reqs[r].generated).meta.errorCode = "timeout"

\* The place of the row with the given id in the table.
IndexOfId(rows, id) == CHOOSE i \in 1..Len(rows) : rows[i].id = id

RowsWith(conversationId, direction) ==
    LET Is(m) == m.conversationId = conversationId /\ m.direction = direction IN
    SelectSeq(messages, Is)

\* C26: with sends running at once on the stored session, no message is lost
\* or doubled: every step adds at most one row and changes no stored row; the
\* step in which a send returns stores its outbound message, with the reply it
\* returns as content, in the conversation of and later than its own inbound
\* message; and once all the sends that came for the session have returned,
\* the conversation has gained one inbound and one outbound message for each.
C26_NoMessageLostOrDoubled ==
    [][/\ Len(messages') \in {Len(messages), Len(messages) + 1}
       /\ \A i \in 1..Len(messages) : messages'[i] = messages[i]
       /\ \A i, j \in 1..Len(messages') : messages'[i].id = messages'[j].id => i = j
       /\ \A r \in Requests :
             (reqs[r].pc = "outbound" /\ reqs'[r].pc = "idle") =>
                LET in == IndexOfId(messages', response'.persisted[1])
                    out == IndexOfId(messages', response'.persisted[2])
                IN /\ Len(response'.persisted) = 2
                   /\ \E i \in 1..Len(messages') : messages'[i].id = response'.persisted[2]
                   /\ in < out
                   /\ out = Len(messages')
                   /\ Len(messages') = Len(messages) + 1
                   /\ messages'[in].direction = "inbound"
                   /\ messages'[in].content = Trim(response'.message)
                   /\ messages'[out].direction = "outbound"
                   /\ messages'[out].content = The(response'.result).reply
                   /\ messages'[in].conversationId = The(response'.result).sessionId
                   /\ messages'[out].conversationId = The(response'.result).sessionId
       /\ (NoneInFlight /\ Len(conversations) = 1)' =>
             /\ Len(RowsWith(NewId(1), "inbound"))' = 1 + started'
             /\ Len(RowsWith(NewId(1), "outbound"))' = 1 + started'
             /\ Len(messages') = 2 + 2 * started'
      ]_vars

\* Two sends on the stored session have both returned, the second having
\* stored its inbound message before the first stored its reply: in1, in2,
\* out1, out2, the two replies differing.
C26_Witness ==
    /\ NoneInFlight
    /\ started = 2
    /\ Len(conversations) = 1
    /\ Len(messages) = 6
    /\ messages[3].direction = "inbound"
    /\ messages[4].direction = "inbound"
    /\ messages[5].direction = "outbound"
    /\ messages[6].direction = "outbound"
    /\ messages[5].content # messages[6].content
    /\ response.persisted = <<messages[4].id, messages[6].id>>

\* C27 as stated: a send that came with a sessionId string resolves it as
\* getSession resolves the same string: when getSession finds a conversation
\* for the string, the send is answered on that conversation; when getSession
\* finds none, the send fails with a 404; and the send creates no conversation.
C27_ResolvedAlike ==
    (/\ SendAnswered
     /\ Trim(response.message) # <<>>
     /\ response.sessionId # Undefined) =>
        LET found == findConversationById(The(response.sessionId)) IN
        /\ response.created = <<>>
        /\ conversations = response.before.conversations
        /\ IF found # Undefined
           THEN /\ response.pc = "done"
                /\ The(response.result).sessionId = The(found).id
           ELSE /\ response.pc = "failed"
                /\ The(response.error).statusCode = 404

\* C28 as stated: a send that has failed, whatever the reason, has left both
\* tables as they were when it came: the conversation it may have created and
\* the inbound message it may have stored are not there.
C28_FailedSendLeavesNothing ==
    (SendAnswered /\ response.pc = "failed") =>
        /\ conversations = response.before.conversations
        /\ messages = response.before.messages

\* Another send on the conversation of r has come and not yet returned.
OtherSendInFlight(r) ==
    \E q \in Requests \ {r} :
       /\ reqs[q].op = "send"
       /\ reqs[q].pc # "idle"
       /\ reqs[q].conversation = reqs[r].conversation

\* C29 as stated: the completion request of every send, alone or with another
\* send on the same session under way, carries the turn of the send's own
\* inbound message; and when no other send on the session is in flight that
\* turn is the last, with role "user" and the trimmed text of the request.
C29_OwnInboundInHistory ==
    [][\A r \in Requests :
          (reqs[r].pc = "generate" /\ reqs'[r].pc = "waiting") =>
             LET passed == SliceLast(reqs[r].history, MAX_HISTORY_MESSAGES(env))
                 sent == reqs'[r].completions[Len(reqs'[r].completions)].messages
             IN /\ \E i \in 1..Len(passed) : passed[i].id = reqs[r].persisted[1]
                /\ ~OtherSendInFlight(r) =>
                      /\ passed # <<>>
                      /\ passed[Len(passed)].id = reqs[r].persisted[1]
                      /\ sent[Len(sent)] = [role |-> "user",
                                            content |-> Trim(reqs[r].message)]
      ]_vars

\* C30: conversations are isolated under every interleaving: the history a
\* send has read holds only rows of the send's conversation; the list a
\* getSession returns holds only messages of the conversation asked for; and a
\* step of a send on one conversation changes neither the rows nor the
\* possible listings of any other conversation.
C30_ConversationsIsolated ==
    [][/\ \A r \in Requests :
             (reqs'[r].op = "send" /\ reqs'[r].conversation # Undefined) =>
                \A i \in 1..Len(reqs'[r].history) :
                   /\ reqs'[r].history[i].conversationId = The(reqs'[r].conversation).id
                   /\ reqs'[r].history[i] \in Range(messages')
       /\ \A r \in Requests :
             (reqs[r].pc = "list" /\ reqs'[r].pc = "idle" /\ response'.pc = "done") =>
                LET list == The(response'.result).messages IN
                /\ The(response'.result).sessionId = The(reqs[r].sessionId)
                /\ \A i \in 1..Len(list) :
                      \E m \in Range(messages) :
                         /\ m.id = list[i].id
                         /\ m.content = list[i].content
                         /\ m.conversationId = The(reqs[r].sessionId)
       /\ \A r \in Requests :
             (reqs[r].op = "send" /\ reqs[r].conversation # Undefined
              /\ reqs'[r] # reqs[r]) =>
                \A A \in IdsOf(conversations) \ {The(reqs[r].conversation).id} :
                   /\ InsertedIn(A)' = InsertedIn(A)
                   /\ listMessagesByConversationId(A)' = listMessagesByConversationId(A)
                   /\ findConversationById(A)' = findConversationById(A)
      ]_vars

\* A send on a new conversation has read its history, one message, while the
\* stored conversation holds the inbound message of another send under way.
C30_Witness ==
    \E r, q \in Requests :
       /\ reqs[r].op = "send"
       /\ reqs[r].pc = "generate"
       /\ The(reqs[r].conversation).id = NewId(2)
       /\ Len(reqs[r].history) = 1
       /\ reqs[q].op = "send"
       /\ reqs[q].conversation # Undefined
       /\ The(reqs[q].conversation).id = NewId(1)
       /\ Len(reqs[q].persisted) = 1
       /\ Len(InsertedIn(NewId(1))) = 3

\* A getSession on the new conversation was answered with its one message
\* while the stored conversation held two.
C30_WitnessGet ==
    /\ GetAnswered
    /\ response.pc = "done"
    /\ The(response.result).sessionId = NewId(2)
    /\ Len(The(response.result).messages) = 1
    /\ Len(InsertedIn(NewId(1))) = 2

\* A list of messages that starts inbound, alternates, and ends outbound.
Alternates(list) ==
    /\ Len(list) % 2 = 0
    /\ \A i \in 1..Len(list) :
          list[i].direction = IF i % 2 = 1 THEN "inbound" ELSE "outbound"

\* C31 as stated: with sends made one after the other and none in flight,
\* the message list of every conversation, as listMessagesByConversationId
\* returns it, starts with an inbound message, alternates inbound and
\* outbound, and has even length.
C31_ListsAlternate ==
    NoneInFlight =>
        \A c \in Range(conversations) :
           \A list \in listMessagesByConversationId(c.id) : Alternates(list)

\* C32 as stated: the page has at most one send request in flight;
\* typingIndicator is true only while isSending is; once the page has handled
\* the answer of a request, whatever it was, both are false; and a send
\* triggered while isSending is true starts no request and adds no message to
\* the page.
C32_OneSendInFlight ==
    [][/\ page'.posts <= 1
       /\ page'.typingIndicator => page'.isSending
       /\ (page.pc = "fetching" /\ page'.pc = "ready") =>
             ~page'.isSending /\ ~page'.typingIndicator
       /\ (page.isSending /\ page'.isSending) =>
             /\ page'.messages = page.messages
             /\ page'.posts > page.posts => page.pc = "sending"
      ]_vars

\* C33 as stated: once the page has handled a 404 answer for the session id
\* it holds, from the history load or from a send, it holds no session id, in
\* memory or in localStorage, so that its next send goes without sessionId.
C33_StaleSessionDiscarded ==
    (/\ page.pc = "ready"
     /\ page.answer # {}
     /\ ~The(page.answer).failed
     /\ The(page.answer).status = 404) =>
        /\ page.sessionId = {}
        /\ page.stored = {}

\* C34: every error that leaves a route handler is answered with a status of
\* at least 400 and a body holding one error label.  An error with a number
\* statusCode and a string code is answered with exactly that status and
\* code; any other error with its own statusCode if it has one and else 500,
\* and with its own string code if it has one, else internal_server_error
\* for a 5xx status and bad_request for a 4xx status.
C34_ErrorsAnswered ==
    (response.pc = "failed" /\ response.thrown # Undefined) =>
        LET error == The(response.thrown)
            answer == The(response.error)
            carriesBoth == error.statusCode # Undefined /\ error.code # Undefined
        IN  /\ response.error # Undefined
            /\ answer.statusCode >= 400
            /\ carriesBoth =>
                  /\ answer.statusCode = The(error.statusCode)
                  /\ answer.code = The(error.code)
            /\ error = [statusCode |-> Some(400), code |-> Some("empty_message")] =>
                  answer = [statusCode |-> 400, code |-> "empty_message"]
            /\ (/\ error.statusCode = Some(404)
                /\ error.code \in {Some("invalid_session"), Some("not_found")}) =>
                  answer = [statusCode |-> 404, code |-> The(error.code)]
            /\ ~carriesBoth =>
                  /\ answer.statusCode =
                        IF error.statusCode # Undefined
                        THEN The(error.statusCode) ELSE 500
                  /\ error.code # Undefined => answer.code = The(error.code)
                  /\ error.code = Undefined =>
                        answer.code = IF answer.statusCode >= 500
                                      THEN "internal_server_error"
                                      ELSE "bad_request"

\* An error with a 4xx statusCode and no code has been answered as bad_request.
C34_Witness ==
    /\ response.pc = "failed"
    /\ response.thrown = Some([statusCode |-> Some(413), code |-> Undefined])
    /\ response.error = Some([statusCode |-> 413, code |-> "bad_request"])

\* An error with a code and no statusCode has been answered with 500 and its code.
C34_WitnessCode ==
    /\ response.pc = "failed"
    /\ response.thrown = Some([statusCode |-> Undefined, code |-> Some("P1001")])
    /\ response.error = Some([statusCode |-> 500, code |-> "P1001"])


====
